---- MODULE Spec2Model ----
(***************************************************************************)
(* A model of the PNCP tender harvesting pipeline of mvp-seglicit-backend. *)
(*                                                                         *)
(*   SpecRecon     the reconcilers that write a batch of scraped records   *)
(*                 into the PostgreSQL table "tenders"                     *)
(*                 (PNCPScraperFinal.inserir_no_banco,                     *)
(*                  importar_dados_completos, adicionar_novas_licitacoes)  *)
(*   SpecWalk      one pipeline run: the region loop, the listing walker   *)
(*                 and the per-card processing of both scraper variants    *)
(*                 (PNCPScraperFinal.scrape_multiplos_estados /            *)
(*                  scrape_estado / process_edital and                     *)
(*                  PNCPScraperItemsOnly.scrape_editais / process_edital)  *)
(*   SpecItems     the Item Extractor on one detail page, structural path  *)
(*                 and text fallback, in both scraper variants             *)
(*   SpecCurrency  the three parsers of a monetary token                   *)
(*   SpecSentinel  the value cells of one row of the Items table, from     *)
(*                 extraction to the stored item                           *)
(*   SpecDate      the publication date of a record, from the card to the  *)
(*                 stored row                                              *)
(*   SpecRows      is_valid_items_row of both scraper variants             *)
(*   SpecConc      two executions of inserir_no_banco at the same time     *)
(*   SpecSession   the browser session of a run: start, body, close        *)
(*   SpecParse     the structural row parser and the text-fallback row     *)
(*                 parser on the same fields                               *)
(*   SpecTabs      ensure_items_tab_active and ensure_files_tab_active     *)
(*   SpecFiles     the File Collector of both scraper variants             *)
(*   SpecPages     the page loop of scrape_estado and the region loop,     *)
(*                 without the detail visits; SpecPagesFair adds weak      *)
(*                 fairness of the next step                               *)
(*   SpecDownload  one download attempt: download_file and the tasks the   *)
(*                 download events start                                   *)
(*                                                                         *)
(* Every specification starts the variables of the other parts at their    *)
(* idle values and leaves them unchanged.                                  *)
(*                                                                         *)
(* Python values are modelled with their dynamic type where it matters: a  *)
(* return value is a record [type, value].  None / SQL NULL is the value   *)
(* Null.  Strings are TLA+ strings when only their identity matters.       *)
(***************************************************************************)
EXTENDS Integers, Sequences, FiniteSets, TLC

VARIABLES
    \* ---- reconciler (psycopg2 connection, cursor and local variables)
    r_pc,          \* position: "start", "loop", "done" (returned), "failed" (no connection)
    entry,         \* which reconciling entry point runs
    batch,         \* the list of records handed to the entry point
    store,         \* committed rows of table tenders, in insertion order
    tx,            \* rows as seen inside the open transaction
    txAborted,     \* PostgreSQL: a statement of the open transaction failed
    existing_ids,  \* the local set existing_ids
    work,          \* the list the write loop iterates over
    idx,           \* index of the next element of work (1-based)
    inseridos,     \* the local counter inseridos
    atualizados,   \* the local counter atualizados
    ret,           \* value returned to the caller
    run,           \* 1 for the first execution on the batch, 2 for the second
    store0,        \* history: the store when the current execution started
    rlog,          \* history: per element of work, the statement and whether it raised
    prev,          \* history: the counters the first execution ended with
    \* ---- pipeline run (one browser session, one active page)
    w_pc,          \* position: "region", "page", "cards", "next", "region_end", "done"
    variant,       \* "final" (PNCPScraperFinal) or "items_only" (PNCPScraperItemsOnly)
    estados,       \* the list of region codes of the run
    limit,         \* the per-region limit argument
    ri,            \* index of the region being processed (1-based)
    all_editais,   \* the batch collected by scrape_multiplos_estados
    editais,       \* the list collected by scrape_estado / scrape_editais
    current_page,  \* the local current_page of scrape_estado
    editais_to_process, \* the local editais_to_process
    card_i,        \* the loop index i of the card loop (0-based, as in the code)
    page,          \* what the session's single page shows
    listing_left,  \* cards the portal can still list in this run
    stats,         \* history: what happened to the cards of the current region
    trace,         \* history: regions started, failed and finished, the card visited
                   \* last in the current region, the region an interrupt arrived in
    \* ---- Item Extractor on one detail page
    i_pc,          \* position: "selector", "rows", "after", "done"
    i_variant,     \* "final" or "items_only"
    selector,      \* index of the row selector being tried (1-based)
    valid_rows,    \* the local valid_rows (the rows are numbered)
    row_k,         \* the loop index i of the row loop (0-based)
    items,         \* the local items
    rows_found,    \* the local rows_found of PNCPScraperItemsOnly
    result,        \* the list the extractor returned
    path,          \* history: which path produced the result
    offered,       \* history: valid rows / parsed lines the producing path had
    \* ---- currency parsing of one token
    token,         \* the text of the cell / the value, a sequence of symbols
    parsed,        \* per parser: whether it ran, whether it raised, its result
    \* ---- value cells of one row of the Items table and the LineItem stored for it
    s_pc,          \* position: "row", "item" (extracted), "stored"
    s_variant,     \* "final" or "items_only"
    cells,         \* the value cells of the row, each a sequence of symbols
    item,          \* valor_unitario and valor_total of the extracted item
    stored,        \* valor_unitario and valor_total of the TenderItem stored
    \* ---- publication date of a record
    d_pc,          \* position: "card", "produced", "stored"
    d_variant,     \* scraper variant that reads the card
    card_date,     \* what the card text holds after its date label
    today,         \* the current day
    pub,           \* publication_date of the produced record
    given,         \* publication_date text handed to the Reconciler
    stored_date,   \* publication_date of the stored row
    \* ---- Row Validator
    v_pc,          \* position: "row", "validated"
    v_variant,     \* scraper variant whose validator runs
    row_text,      \* text of the row, as a sequence of pieces
    valid,         \* what is_valid_items_row returned
    \* ---- two Reconciler executions on one PostgreSQL table
    c_pc,          \* per execution: "start", "loop", "done"
    c_batch,       \* per execution: the list of records it was given
    c_ids,         \* per execution: its local set existing_ids
    c_pos,         \* per execution: index of the next record of its batch
    c_pending,     \* per execution: the writes of its open transaction
    c_aborted,     \* per execution: a statement of its transaction failed
    c_store,       \* the committed rows of table tenders
    c_order,       \* history: the executions whose transaction committed, in commit order
    \* ---- session lifecycle of one scraper object
    x_pc,          \* position: "enter", "launch", "context", "body", "close", "stop", "returned"
    x_variant,     \* scraper variant
    x_entry,       \* who runs the scraper: "main" or "service"
    x_run,         \* number of the run (1-based)
    x_exc,         \* the exception the run ends with: "none", "start", "scraping", "close"
    self_browser,  \* the attribute self.browser: "none", "open", "closed"
    self_playwright,\* the attribute self.playwright: "unset", "started", "stopped"
    live_drivers,  \* automation drivers started and not stopped
    live_browsers, \* browsers launched and not closed
    \* ---- the two row parsers of the Item Extractor
    p_pc,          \* "row", "parsed"
    p_variant,     \* which scraper
    p_cells,       \* the fields of the row, as the cells of the table
    p_sep,         \* what separates the fields in the visible text
    structural,    \* what the structural parser returns: <<>> for None or one item
    textual,       \* what the text-fallback parser returns: <<>> for None or one item
    \* ---- the Tab Activator
    t_pc,          \* "call", "selector", "returned"
    activator,     \* which ensure_*_tab_active is running
    active_tab,    \* the panel the detail page shows
    t_sel,         \* index of the tab selector being tried
    clicks,        \* clicks made by the running call
    t_calls,       \* calls made so far
    was_active,    \* the wanted tab was active when the call began
    t_ret,         \* what the call returned
    \* ---- the File Collector
    f_pc,          \* "selector", "links", "done"
    f_mode,        \* which collector runs
    f_sel,         \* index of the download selector being tried
    links,         \* elements the current selector matched
    link_i,        \* index of the element being processed
    files,         \* the descriptors collected so far
    first_match,   \* first selector that matched any element, 0 when none has
    \* ---- the page loop of the Listing Walker
    g_pc,          \* "region", "while", "cards", "next", "region_end", "done"
    g_estados,     \* how many regions the run was given
    g_limit,       \* limit_por_estado
    g_ri,          \* position in the region list
    g_editais,     \* len(editais) of the region
    g_page,        \* current_page
    g_todo,        \* editais_to_process
    g_i,           \* index of the next card
    g_clicks,      \* next-page clicks made in the region
    g_processed,   \* listing pages of the region whose cards were processed
    \* ---- one download attempt
    m_pc,          \* download_file: "register", "click", "wait", "second_save", "returned"
    cb,            \* the handle_download tasks started by download events
    listener,      \* handle_download is registered on the page
    download_info, \* the download the nonlocal download_info holds, 0 for None
    events,        \* download events the page has emitted
    saves,         \* for each download, the save_as calls completed
    descriptors    \* descriptors the attempt returned

reconVars == <<r_pc, entry, batch, store, tx, txAborted, existing_ids, work, idx,
               inseridos, atualizados, ret, run, store0, rlog, prev>>

walkVars == <<w_pc, variant, estados, limit, ri, all_editais, editais, current_page,
              editais_to_process, card_i, page, listing_left, stats, trace>>

itemVars == <<i_pc, i_variant, selector, valid_rows, row_k, items, rows_found, result,
              path, offered>>

curVars == <<token, parsed>>

sentinelVars == <<s_pc, s_variant, cells, item, stored>>

dateVars == <<d_pc, d_variant, card_date, today, pub, given, stored_date>>

rowVars == <<v_pc, v_variant, row_text, valid>>

concVars == <<c_pc, c_batch, c_ids, c_pos, c_pending, c_aborted, c_store, c_order>>

sessionVars == <<x_pc, x_variant, x_entry, x_run, x_exc, self_browser, self_playwright, live_drivers, live_browsers>>

parseVars == <<p_pc, p_variant, p_cells, p_sep, structural, textual>>

tabVars == <<t_pc, activator, active_tab, t_sel, clicks, t_calls, was_active, t_ret>>

fileVars == <<f_pc, f_mode, f_sel, links, link_i, files, first_match>>

pageVars == <<g_pc, g_estados, g_limit, g_ri, g_editais, g_page, g_todo, g_i, g_clicks, g_processed>>

dlVars == <<m_pc, cb, listener, download_info, events, saves, descriptors>>

vars == <<reconVars, walkVars, itemVars, curVars, sentinelVars, dateVars, rowVars, concVars, sessionVars, parseVars, tabVars, fileVars, pageVars, dlVars>>

notRecon == <<walkVars, itemVars, curVars, sentinelVars, dateVars, rowVars, concVars, sessionVars, parseVars, tabVars, fileVars, pageVars, dlVars>>
notWalk == <<reconVars, itemVars, curVars, sentinelVars, dateVars, rowVars, concVars, sessionVars, parseVars, tabVars, fileVars, pageVars, dlVars>>
notItems == <<reconVars, walkVars, curVars, sentinelVars, dateVars, rowVars, concVars, sessionVars, parseVars, tabVars, fileVars, pageVars, dlVars>>
notCurrency == <<reconVars, walkVars, itemVars, sentinelVars, dateVars, rowVars, concVars, sessionVars, parseVars, tabVars, fileVars, pageVars, dlVars>>
notSentinel == <<reconVars, walkVars, itemVars, curVars, dateVars, rowVars, concVars, sessionVars, parseVars, tabVars, fileVars, pageVars, dlVars>>
notDate == <<reconVars, walkVars, itemVars, curVars, sentinelVars, rowVars, concVars, sessionVars, parseVars, tabVars, fileVars, pageVars, dlVars>>
notRows == <<reconVars, walkVars, itemVars, curVars, sentinelVars, dateVars, concVars, sessionVars, parseVars, tabVars, fileVars, pageVars, dlVars>>
notConc == <<reconVars, walkVars, itemVars, curVars, sentinelVars, dateVars, rowVars, sessionVars, parseVars, tabVars, fileVars, pageVars, dlVars>>
notSession == <<reconVars, walkVars, itemVars, curVars, sentinelVars, dateVars, rowVars, concVars, parseVars, tabVars, fileVars, pageVars, dlVars>>
notParse == <<reconVars, walkVars, itemVars, curVars, sentinelVars, dateVars, rowVars, concVars, sessionVars, tabVars, fileVars, pageVars, dlVars>>
notTabs == <<reconVars, walkVars, itemVars, curVars, sentinelVars, dateVars, rowVars, concVars, sessionVars, parseVars, fileVars, pageVars, dlVars>>
notFiles == <<reconVars, walkVars, itemVars, curVars, sentinelVars, dateVars, rowVars, concVars, sessionVars, parseVars, tabVars, pageVars, dlVars>>
notPages == <<reconVars, walkVars, itemVars, curVars, sentinelVars, dateVars, rowVars, concVars, sessionVars, parseVars, tabVars, fileVars, dlVars>>
notDownload == <<reconVars, walkVars, itemVars, curVars, sentinelVars, dateVars, rowVars, concVars, sessionVars, parseVars, tabVars, fileVars, pageVars>>

-----------------------------------------------------------------------------
(* Bounds of the model *)

MaxBatch == 2      \* records in a batch
MaxStore == 2      \* rows in the store before the first execution
MaxEstados == 2    \* region codes in the list of a run
MaxLimit == 2      \* largest per-region limit given to a run
MaxCards == 2      \* cards on one listing page
MaxListing == 2    \* cards the portal lists during one run, over all pages and regions
MaxRows == 11      \* valid rows of an Items panel / item lines of its visible text
MaxTokLen == 4     \* symbols in a token given to the currency parsers
MaxValueCells == 3 \* value cells in one row of the Items table
MaxDay == 3        \* calendar days a date text can name
MaxRowPieces == 3  \* pieces of text in one row handed to the Row Validator
MaxConcBatch == 2  \* records in the batch of each of two concurrent executions
MaxRuns == 2       \* runs of the pipeline on one scraper object

(* Program constants *)

TitleMax == 500    \* title = db.Column(db.String(500), nullable=False)
max_pages == 3     \* max_pages = 3 in scrape_estado
DefaultLimit == 30 \* (limit or 30) in scrape_estado
MinIdLen == 5      \* len(result) > 5 in extract_pncp_id_corrected
RowCap == 10       \* valid_rows[:10] and items[:10]
NumSelectors == 6  \* entries of row_selectors / items_container_selectors

-----------------------------------------------------------------------------
(* Python and SQL values *)

Null == "<null>"                     \* None in Python, NULL in SQL

PyBool(b) == [type |-> "bool", value |-> IF b THEN "True" ELSE "False"]
PyNone == [type |-> "NoneType", value |-> Null]
NoRet == [type |-> "running", value |-> Null]

\* truth value of a pncp_id in "if pncp_id and ...": None and '' are falsy
Truthy(s) == s # Null /\ s # ""

Ids == {"A", "B"}
Titles == {"t1", "t2", "tLong"}

\* length of a title; tLong stands for a first card line of more than 500 characters
TitleLen(t) == IF t = "tLong" THEN TitleMax + 1 ELSE 2

\* the dictionaries of a batch, reduced to the natural key and one descriptive field
Records == {[pncp_id |-> i, title |-> t] : i \in Ids \cup {""}, t \in Titles}
              \cup {[pncp_id |-> Null, title |-> "t1"]}

RECURSIVE SeqsUpTo(_, _)
SeqsUpTo(S, n) ==
    IF n = 0 THEN {<<>>}
    ELSE LET shorter == SeqsUpTo(S, n - 1)
         IN  shorter \cup {Append(s, x) : s \in {q \in shorter : Len(q) = n - 1}, x \in S}

Batches == SeqsUpTo(Records, MaxBatch) \ {<<>>}

-----------------------------------------------------------------------------
(* Values of the variables of a part of the program that is not running *)

\* the limit argument None (given = FALSE)
NoLimit == [given |-> FALSE, n |-> 0]

\* history counters of the card loop of one region
NoStats == [calls |-> 0, none |-> 0, detail_fail |-> 0, plain |-> 0, page_calls |-> 0]

ReconIdle ==
    /\ r_pc = "idle" /\ entry = "inserir_no_banco" /\ batch = <<>> /\ store = <<>>
    /\ tx = <<>> /\ txAborted = FALSE /\ existing_ids = {} /\ work = <<>> /\ idx = 1
    /\ inseridos = 0 /\ atualizados = 0 /\ ret = NoRet /\ run = 1 /\ store0 = <<>>
    /\ rlog = <<>> /\ prev = [inseridos |-> 0, atualizados |-> 0]

NoTrace == [started |-> <<>>, failed |-> {}, finished |-> {}, visited |-> <<>>,
            cancel_at |-> 0]
\* visited is <<>> before the first card of a region, then <<page, index>>

WalkIdle ==
    /\ w_pc = "idle" /\ variant = "final" /\ estados = <<>> /\ limit = NoLimit /\ ri = 1
    /\ all_editais = <<>> /\ editais = <<>> /\ current_page = 1 /\ editais_to_process = 0
    /\ card_i = 0 /\ page = "blank" /\ listing_left = 0 /\ stats = NoStats
    /\ trace = NoTrace

ItemsIdle ==
    /\ i_pc = "idle" /\ i_variant = "final" /\ selector = 1 /\ valid_rows = <<>>
    /\ row_k = 0 /\ items = <<>> /\ rows_found = FALSE /\ result = <<>>
    /\ path = "none" /\ offered = 0

CurrencyIdle ==
    /\ token = <<>>
    /\ parsed = <<>>

SentinelIdle ==
    /\ s_pc = "idle" /\ s_variant = "final" /\ cells = <<>> /\ item = <<>>
    /\ stored = <<>>

DateIdle ==
    /\ d_pc = "idle" /\ d_variant = "final" /\ card_date = <<>> /\ today = 1
    /\ pub = <<>> /\ given = <<>> /\ stored_date = <<>>

RowsIdle ==
    /\ v_pc = "idle" /\ v_variant = "final" /\ row_text = <<>> /\ valid = FALSE

ConcIdle ==
    /\ c_pc = <<>> /\ c_batch = <<>> /\ c_ids = <<>> /\ c_pos = <<>> /\ c_pending = <<>>
    /\ c_aborted = <<>> /\ c_store = <<>> /\ c_order = <<>>

SessionIdle ==
    /\ x_pc = "idle" /\ x_variant = "final" /\ x_entry = "main" /\ x_run = 1 /\ x_exc = "none"
    /\ self_browser = "none" /\ self_playwright = "unset" /\ live_drivers = 0
    /\ live_browsers = 0

ParseIdle ==
    /\ p_pc = "idle" /\ p_variant = "final" /\ p_cells = <<>> /\ p_sep = <<>>
    /\ structural = <<>> /\ textual = <<>>

TabsIdle ==
    /\ t_pc = "idle" /\ activator = "final_items" /\ active_tab = "Itens" /\ t_sel = 1
    /\ clicks = 0 /\ t_calls = 0 /\ was_active = FALSE /\ t_ret = FALSE

FilesIdle ==
    /\ f_pc = "idle" /\ f_mode = "items_only" /\ f_sel = 1 /\ links = 0 /\ link_i = 0
    /\ files = <<>> /\ first_match = 0

PagesIdle ==
    /\ g_pc = "idle" /\ g_estados = 0 /\ g_limit = [given |-> FALSE, n |-> 0] /\ g_ri = 1
    /\ g_editais = 0 /\ g_page = 1 /\ g_todo = 0 /\ g_i = 0 /\ g_clicks = 0 /\ g_processed = 0

DownloadIdle ==
    /\ m_pc = "idle" /\ cb = <<>> /\ listener = FALSE /\ download_info = 0
    /\ events = 0 /\ saves = <<>> /\ descriptors = 0

-----------------------------------------------------------------------------
(* The table tenders in PostgreSQL, as the psycopg2 cursor sees it *)

\* pncp_id = db.Column(db.String(100), unique=True, nullable=True):
\* no two rows share a non-NULL pncp_id ('' is a value like any other)
UniqueOk(rows) ==
    \A j, k \in 1..Len(rows) :
        (j # k /\ rows[j].pncp_id # Null) => rows[j].pncp_id # rows[k].pncp_id

StoreRows == {[pncp_id |-> i, title |-> "t0"] : i \in {"A", "", Null}}
InitStores == {s \in SeqsUpTo(StoreRows, MaxStore) : UniqueOk(s)}

\* SELECT pncp_id FROM tenders WHERE pncp_id IS NOT NULL, as a Python set
SelectIds(rows) == {rows[k].pncp_id : k \in {j \in 1..Len(rows) : rows[j].pncp_id # Null}}

\* cursor.execute(INSERT ...): raises inside an aborted transaction, on a value too
\* long for its column and on a violation of the unique constraint
DbInsert(rows, aborted, rec) ==
    IF aborted \/ TitleLen(rec.title) > TitleMax
       \/ (rec.pncp_id # Null /\ \E k \in 1..Len(rows) : rows[k].pncp_id = rec.pncp_id)
    THEN [ok |-> FALSE, rows |-> rows]
    ELSE [ok |-> TRUE, rows |-> Append(rows, rec)]

\* cursor.execute(UPDATE ... WHERE pncp_id = %(pncp_id)s): overwrites the fields of
\* every row with that pncp_id (no row when pncp_id is NULL)
DbUpdate(rows, aborted, rec) ==
    IF aborted \/ TitleLen(rec.title) > TitleMax
    THEN [ok |-> FALSE, rows |-> rows]
    ELSE [ok |-> TRUE,
          rows |-> [k \in 1..Len(rows) |->
                       IF rows[k].pncp_id # Null /\ rows[k].pncp_id = rec.pncp_id
                       THEN rec ELSE rows[k]]]

\* conn.commit(): PostgreSQL answers COMMIT of an aborted transaction with ROLLBACK
DbCommit(committed, rows, aborted) == IF aborted THEN committed ELSE rows

-----------------------------------------------------------------------------
(* The three reconciling entry points *)

EntryPoints == {"inserir_no_banco", "importar_dados_completos", "adicionar_novas_licitacoes"}

\* a reconciler that never looks the identifier up and inserts every record
Statement_AlwaysInsert(ep, rec, ids) == "insert"

\* the statement the write loop chooses for one record
\*   inserir_no_banco:           if pncp_id and pncp_id in existing_ids: UPDATE else INSERT
\*   importar_dados_completos:   if pncp_id in existing_ids: UPDATE else INSERT
\*   adicionar_novas_licitacoes: INSERT
Statement(ep, rec, ids) ==
    CASE ep = "inserir_no_banco" ->
            IF Truthy(rec.pncp_id) /\ rec.pncp_id \in ids THEN "update" ELSE "insert"
      [] ep = "importar_dados_completos" ->
            IF rec.pncp_id \in ids THEN "update" ELSE "insert"
      [] OTHER -> "insert"

\* novos_editais of adicionar_novas_licitacoes
RECURSIVE NovosEditais(_, _)
NovosEditais(json_data, ids) ==
    IF json_data = <<>> THEN <<>>
    ELSE LET edital == Head(json_data)
             rest == NovosEditais(Tail(json_data), ids)
         IN  IF Truthy(edital.pncp_id) /\ edital.pncp_id \notin ids
             THEN <<edital>> \o rest ELSE rest

\* a counter incremented before cursor.execute, which counts failed writes too
Counted_BeforeExecute(stmt, which, ok) == stmt = which

\* "inseridos += 1" / "atualizados += 1" stands after cursor.execute inside the try:
\* a statement is counted only when its execute did not raise
Counted(stmt, which, ok) == stmt = which /\ ok

\* value returned when the function runs to its end
ReturnValue(ep) == IF ep = "inserir_no_banco" THEN PyBool(TRUE) ELSE PyNone

\* value returned when the connection cannot be opened
ReturnOnConnectError(ep) == IF ep = "inserir_no_banco" THEN PyBool(FALSE) ELSE PyNone

ReconInit ==
    /\ r_pc = "start"
    /\ entry \in EntryPoints
    /\ batch \in Batches
    \* the scraper's extract_pncp_id_corrected returns a string, never None
    /\ entry = "inserir_no_banco" => \A k \in 1..Len(batch) : batch[k].pncp_id # Null
    /\ store \in InitStores
    /\ tx = store
    /\ txAborted = FALSE
    /\ existing_ids = {}
    /\ work = <<>>
    /\ idx = 1
    /\ inseridos = 0
    /\ atualizados = 0
    /\ ret = NoRet
    /\ run = 1
    /\ store0 = store
    /\ rlog = <<>>
    /\ prev = [inseridos |-> 0, atualizados |-> 0]
    /\ WalkIdle /\ ItemsIdle /\ CurrencyIdle /\ SentinelIdle /\ DateIdle /\ RowsIdle /\ ConcIdle /\ SessionIdle /\ ParseIdle /\ TabsIdle /\ FilesIdle /\ PagesIdle /\ DownloadIdle

\* psycopg2.connect fails: conectar_banco returns None and inserir_no_banco returns
\* False; in the two scripts the outer except prints the error
ConnectFail ==
    /\ r_pc = "start"
    /\ r_pc' = "failed"
    /\ ret' = ReturnOnConnectError(entry)
    /\ UNCHANGED <<entry, batch, store, tx, txAborted, existing_ids, work, idx,
                   inseridos, atualizados, run, store0, rlog, prev>>
    /\ UNCHANGED notRecon

\* connect, open the cursor, load existing_ids, reset the counters; in
\* adicionar_novas_licitacoes also filter the batch and return early when nothing is new
Connect ==
    /\ r_pc = "start"
    /\ LET ids == SelectIds(store)
           todo == IF entry = "adicionar_novas_licitacoes"
                   THEN NovosEditais(batch, ids) ELSE batch
       IN  /\ existing_ids' = ids
           /\ work' = todo
           /\ IF entry = "adicionar_novas_licitacoes" /\ todo = <<>>
              THEN r_pc' = "done" /\ ret' = PyNone
              ELSE r_pc' = "loop" /\ ret' = ret
    /\ tx' = store
    /\ txAborted' = FALSE
    /\ idx' = 1
    /\ inseridos' = 0
    /\ atualizados' = 0
    /\ UNCHANGED <<entry, batch, store, run, store0, rlog, prev>>
    /\ UNCHANGED notRecon

\* one iteration of the write loop: execute the statement; on an exception log it and
\* continue with the next record
WriteRecord ==
    /\ r_pc = "loop"
    /\ idx <= Len(work)
    /\ LET rec == work[idx]
           stmt == Statement(entry, rec, existing_ids)
           res == IF stmt = "update" THEN DbUpdate(tx, txAborted, rec)
                                     ELSE DbInsert(tx, txAborted, rec)
       IN  /\ tx' = res.rows
           /\ txAborted' = (txAborted \/ ~res.ok)
           /\ inseridos' = IF Counted(stmt, "insert", res.ok) THEN inseridos + 1 ELSE inseridos
           /\ atualizados' = IF Counted(stmt, "update", res.ok) THEN atualizados + 1 ELSE atualizados
           /\ rlog' = Append(rlog, [stmt |-> stmt, ok |-> res.ok])
    /\ idx' = idx + 1
    /\ UNCHANGED <<r_pc, entry, batch, store, existing_ids, work, ret, run, store0, prev>>
    /\ UNCHANGED notRecon

\* conn.commit(), conn.close(), print the counters, return
Commit ==
    /\ r_pc = "loop"
    /\ idx > Len(work)
    /\ store' = DbCommit(store, tx, txAborted)
    /\ r_pc' = "done"
    /\ ret' = ReturnValue(entry)
    /\ UNCHANGED <<entry, batch, tx, txAborted, existing_ids, work, idx,
                   inseridos, atualizados, run, store0, rlog, prev>>
    /\ UNCHANGED notRecon

\* the same entry point is run a second time on the same batch (unchanged source),
\* with no other write to the store in between
RunAgain ==
    /\ r_pc = "done"
    /\ run = 1
    /\ run' = 2
    /\ r_pc' = "start"
    /\ store0' = store
    /\ rlog' = <<>>
    /\ ret' = NoRet
    /\ prev' = [inseridos |-> inseridos, atualizados |-> atualizados]
    /\ UNCHANGED <<entry, batch, store, tx, txAborted, existing_ids, work, idx,
                   inseridos, atualizados>>
    /\ UNCHANGED notRecon

ReconNext == ConnectFail \/ Connect \/ WriteRecord \/ Commit \/ RunAgain

SpecRecon == ReconInit /\ [][ReconNext]_vars

-----------------------------------------------------------------------------
(* The pipeline run: region loop, listing walker, per-card processing *)

Variants == {"final", "items_only"}
Regions == {"SP", "RJ"}
EstadoLists == SeqsUpTo(Regions, MaxEstados) \ {<<>>}

\* the limit argument: None or an integer
Limits == {NoLimit} \cup {[given |-> TRUE, n |-> k] : k \in 0..MaxLimit}

\* (limit or 30): None and 0 are falsy
LimitOr30(l) == IF l.given /\ l.n # 0 THEN l.n ELSE DefaultLimit
LimitTruthy(l) == l.given /\ l.n # 0

Min(a, b) == IF a <= b THEN a ELSE b

\* a card of the listing: the text that follows the identifier label (empty when the
\* card shows no identifier) and whether the anchor carries an href
CardIdTexts == {"", "12345", "2024-1"}
Cards == [id_text : CardIdTexts, href : BOOLEAN]

\* PNCPScraperFinal: the matched text when it is longer than 5 characters, else ""
extract_pncp_id_corrected(text) == IF Len(text) > MinIdLen THEN text ELSE ""

\* PNCPScraperItemsOnly: id_part[:100] if id_part else None
safe_extract_pncp_id(text) == IF text # "" THEN text ELSE Null

\* the dictionary built from the card, reduced to the fields the properties read;
\* h_uf is history: the region code the pipeline was processing
\* and h_page the value of current_page when the card was processed
extract_basic_info_corrected(card, index, uf) ==
    [pncp_id |-> extract_pncp_id_corrected(card.id_text), state_code |-> uf,
     index |-> index, has_details |-> FALSE, h_uf |-> uf, h_page |-> 1]

\* 'state_code': 'SP' is a literal in PNCPScraperItemsOnly.extract_basic_info
extract_basic_info(card, index, uf) ==
    [pncp_id |-> safe_extract_pncp_id(card.id_text), state_code |-> "SP",
     index |-> index, has_details |-> FALSE, h_uf |-> uf, h_page |-> 1]

\* extract_complete_info / extract_detailed_info catch every exception and return a
\* dictionary whose has_details tells whether the extraction went through
extract_complete_info(ok) == [has_details |-> ok]

\* a process_edital that gives up the card when its detail extraction failed
ProcessEditalReturn_DropFailed(edital_info, detailed_info) ==
    IF detailed_info.has_details
    THEN <<[edital_info EXCEPT !.has_details = detailed_info.has_details]>>
    ELSE <<>>

\* edital_info.update(detailed_info); ...; return edital_info
\* (the result of process_edital is a list of one record, or <<>> for None)
ProcessEditalReturn(edital_info, detailed_info) ==
    <<[edital_info EXCEPT !.has_details = detailed_info.has_details]>>

\* page.go_back(): one step back in the history of the single page
GoBack(p) ==
    CASE p = "contratacao" -> "detail"
      [] p = "detail" -> "listing"
      [] OTHER -> "other"

\* history bookkeeping of one process_edital call
Tally(st, kind) ==
    [calls |-> st.calls + 1,
     none |-> st.none + (IF kind = "none" THEN 1 ELSE 0),
     detail_fail |-> st.detail_fail + (IF kind = "detail_fail" THEN 1 ELSE 0),
     plain |-> st.plain + (IF kind = "plain" THEN 1 ELSE 0),
     page_calls |-> st.page_calls + 1]

WalkInit ==
    /\ w_pc = "region"
    /\ variant \in Variants
    /\ estados \in EstadoLists
    \* scrape_editais takes one region code
    /\ variant = "items_only" => Len(estados) = 1
    /\ limit \in Limits
    /\ ri = 1
    /\ all_editais = <<>>
    /\ editais = <<>>
    /\ current_page = 1
    /\ editais_to_process = 0
    /\ card_i = 0
    /\ page = "blank"
    /\ listing_left = MaxListing
    /\ stats = NoStats
    /\ trace = NoTrace
    /\ ReconIdle /\ ItemsIdle /\ CurrencyIdle /\ SentinelIdle /\ DateIdle /\ RowsIdle /\ ConcIdle /\ SessionIdle /\ ParseIdle /\ TabsIdle /\ FilesIdle /\ PagesIdle /\ DownloadIdle

\* scrape_multiplos_estados takes the next region; scrape_estado starts and calls
\* navigate_and_filter; when that fails it returns [] at once
ScrapeEstado_Navigate ==
    /\ w_pc = "region" /\ variant = "final" /\ ri <= Len(estados)
    /\ editais' = <<>>
    /\ current_page' = 1
    /\ stats' = NoStats
    /\ \E ok \in BOOLEAN :
          IF ok THEN /\ page' = "listing"
                     /\ w_pc' = "page"
                     /\ ri' = ri
                     /\ trace' = [trace EXCEPT !.started = Append(@, ri),
                                                !.visited = <<>>]
                ELSE /\ page' = "other"
                     /\ w_pc' = "region"
                     /\ ri' = ri + 1
                     /\ trace' = [trace EXCEPT !.started = Append(@, ri),
                                                !.visited = <<>>,
                                                !.failed = @ \cup {ri},
                                                !.finished = @ \cup {ri}]
    /\ UNCHANGED <<variant, estados, limit, all_editais, editais_to_process, card_i,
                   listing_left>>
    /\ UNCHANGED notWalk

\* the while test of scrape_estado, get_editais_count and editais_to_process
ScrapeEstado_While ==
    /\ w_pc = "page"
    /\ IF Len(editais) < LimitOr30(limit) /\ current_page <= max_pages
       THEN \E total_editais_page \in
                  0..(IF page = "listing" THEN Min(MaxCards, listing_left) ELSE 0) :
               IF total_editais_page = 0
               THEN /\ w_pc' = "region_end"
                    /\ UNCHANGED <<editais_to_process, card_i, listing_left, stats>>
               ELSE /\ editais_to_process' =
                          Min(total_editais_page, LimitOr30(limit) - Len(editais))
                    /\ card_i' = 0
                    /\ listing_left' = listing_left - total_editais_page
                    /\ stats' = [stats EXCEPT !.page_calls = 0]
                    /\ w_pc' = "cards"
       ELSE /\ w_pc' = "region_end"
            /\ UNCHANGED <<editais_to_process, card_i, listing_left, stats>>
    /\ UNCHANGED <<variant, estados, limit, ri, all_editais, editais, current_page, page,
                   trace>>
    /\ UNCHANGED notWalk

\* one iteration of the card loop of scrape_estado: process_edital(i, uf), the append
\* and the limit test
ProcessEdital ==
    /\ w_pc = "cards" /\ variant = "final" /\ card_i < editais_to_process
    /\ \E card \in Cards, raises \in {"no", "card", "goto", "go_back"} :
       \* detail_ok and loaded are read on one path each
       \E detail_ok \in (IF raises = "no" /\ card.href THEN BOOLEAN ELSE {FALSE}),
          loaded \in (IF raises = "goto" /\ card.href THEN BOOLEAN ELSE {FALSE}) :
          LET uf == estados[ri]
              edital_info == [extract_basic_info_corrected(card, card_i, uf)
                                 EXCEPT !.h_page = current_page]
              detailed_info == extract_complete_info(detail_ok)
              \* what process_edital returns, where it leaves the page, and its kind
              out ==
                 IF page # "listing"
                 THEN [res |-> <<>>, page |-> page, kind |-> "none"]       \* index >= len(cards)
                 ELSE IF raises = "card"
                 THEN [res |-> <<>>, page |-> page, kind |-> "none"]
                 ELSE IF ~card.href
                 THEN [res |-> <<edital_info>>, page |-> page, kind |-> "plain"]
                 ELSE IF raises = "goto"
                 THEN [res |-> <<>>, page |-> IF loaded THEN "detail" ELSE page,
                       kind |-> "none"]
                 ELSE IF raises = "go_back"
                 THEN [res |-> <<>>, page |-> "detail", kind |-> "none"]
                 ELSE [res |-> ProcessEditalReturn(edital_info, detailed_info),
                       page |-> GoBack("detail"),
                       kind |-> IF detail_ok THEN "enriched" ELSE "detail_fail"]
              appended == editais \o out.res
          IN  /\ editais' = appended
              /\ page' = out.page
              /\ stats' = Tally(stats, out.kind)
              /\ card_i' = card_i + 1
              /\ w_pc' = IF (LimitTruthy(limit) /\ Len(appended) >= limit.n)
                            \/ card_i + 1 = editais_to_process
                         THEN "next" ELSE "cards"
    /\ trace' = [trace EXCEPT !.visited = <<current_page, card_i>>]
    /\ UNCHANGED <<variant, estados, limit, ri, all_editais, current_page,
                   editais_to_process, listing_left>>
    /\ UNCHANGED notWalk

\* a walker that leaves out one page number
NextPageNumber_Skip(p) == p + 2

\* current_page += 1
NextPageNumber(p) == p + 1

\* after the card loop: click_next_page when the limit is not reached, current_page += 1
ScrapeEstado_NextPage ==
    /\ w_pc = "next"
    /\ IF Len(editais) < LimitOr30(limit)
       THEN \E clicked \in (IF page = "listing" THEN BOOLEAN ELSE {FALSE}) :
               IF clicked
               THEN current_page' = NextPageNumber(current_page) /\ w_pc' = "page"
               ELSE current_page' = current_page /\ w_pc' = "region_end"
       ELSE current_page' = NextPageNumber(current_page) /\ w_pc' = "page"
    /\ UNCHANGED <<variant, estados, limit, ri, all_editais, editais, editais_to_process,
                   card_i, page, listing_left, stats, trace>>
    /\ UNCHANGED notWalk

\* scrape_estado returns editais; scrape_multiplos_estados extends all_editais;
\* the locals of scrape_estado are gone
ScrapeEstado_Return ==
    /\ w_pc = "region_end"
    /\ all_editais' = all_editais \o editais
    /\ ri' = ri + 1
    /\ w_pc' = "region"
    /\ editais' = <<>> /\ current_page' = 1 /\ editais_to_process' = 0 /\ card_i' = 0
    /\ stats' = NoStats
    /\ trace' = [trace EXCEPT !.finished = @ \cup {ri}, !.visited = <<>>]
    /\ UNCHANGED <<variant, estados, limit, page, listing_left>>
    /\ UNCHANGED notWalk

\* a region loop that gives up the remaining regions after a failure
AfterFailure_Stop(i, n) == n + 1

\* except Exception as e: ...; continue
AfterFailure(i, n) == i + 1

\* an exception leaves scrape_estado from its card loop; the handler of
\* scrape_multiplos_estados logs it and continues with the next region: the
\* locals of scrape_estado, with what the region had collected, are gone
ScrapeEstado_Raises ==
    /\ w_pc = "cards" /\ variant = "final"
    /\ ri' = AfterFailure(ri, Len(estados))
    /\ w_pc' = "region"
    /\ editais' = <<>> /\ current_page' = 1 /\ editais_to_process' = 0 /\ card_i' = 0
    /\ stats' = NoStats
    /\ trace' = [trace EXCEPT !.failed = @ \cup {ri}, !.visited = <<>>]
    /\ UNCHANGED <<variant, estados, limit, all_editais, page, listing_left>>
    /\ UNCHANGED notWalk

\* Ctrl-C while a region is processed: KeyboardInterrupt (CancelledError under
\* asyncio.run) is raised at the pending await; it is no Exception, so it passes
\* the handlers of process_edital, scrape_estado and scrape_multiplos_estados and
\* reaches "except KeyboardInterrupt" of main: nothing is returned and the locals
\* of scrape_estado are gone
Interrupt ==
    /\ w_pc \in {"page", "cards", "next"} /\ variant = "final"
    /\ trace.cancel_at = 0
    /\ w_pc' = "interrupted"
    /\ editais' = <<>> /\ current_page' = 1 /\ editais_to_process' = 0 /\ card_i' = 0
    /\ stats' = NoStats
    /\ trace' = [trace EXCEPT !.cancel_at = ri, !.visited = <<>>]
    /\ UNCHANGED <<variant, estados, limit, ri, all_editais, page, listing_left>>
    /\ UNCHANGED notWalk

\* scrape_multiplos_estados returns all_editais
ScrapeMultiplos_Return ==
    /\ w_pc = "region" /\ variant = "final" /\ ri > Len(estados)
    /\ w_pc' = "done"
    /\ UNCHANGED <<variant, estados, limit, ri, all_editais, editais, current_page,
                   editais_to_process, card_i, page, listing_left, stats, trace>>
    /\ UNCHANGED notWalk

\* PNCPScraperItemsOnly.scrape_editais up to its card loop
ScrapeEditais_Start ==
    /\ w_pc = "region" /\ variant = "items_only" /\ ri = 1
    /\ ri' = 2
    /\ editais' = <<>>
    /\ stats' = NoStats
    /\ trace' = [trace EXCEPT !.started = Append(@, ri), !.visited = <<>>]
    /\ \E ok \in BOOLEAN, total_editais \in 0..Min(MaxCards, listing_left) :
          IF ~ok
          THEN /\ page' = "other" /\ w_pc' = "done"
               /\ UNCHANGED <<editais_to_process, card_i, listing_left>>
          ELSE /\ page' = "listing"
               /\ IF total_editais = 0
                  THEN /\ w_pc' = "done"
                       /\ UNCHANGED <<editais_to_process, card_i, listing_left>>
                  ELSE /\ editais_to_process' = IF ~limit.given THEN total_editais
                                                ELSE Min(total_editais, limit.n)
                       /\ card_i' = 0
                       /\ listing_left' = listing_left - total_editais
                       /\ w_pc' = "cards"
    /\ UNCHANGED <<variant, estados, limit, all_editais, current_page>>
    /\ UNCHANGED notWalk

\* one iteration of the card loop of scrape_editais: process_edital(i) and the append
ProcessEditalItemsOnly ==
    /\ w_pc = "cards" /\ variant = "items_only" /\ card_i < editais_to_process
    /\ \E card \in Cards, raises \in {"no", "card", "go_back"} :
       \* detail_ok, accessed and back_again are read on some paths only
       \E detail_ok \in (IF raises = "no" THEN BOOLEAN ELSE {FALSE}),
          accessed \in (IF raises = "card" THEN {FALSE} ELSE BOOLEAN),
          back_again \in (IF raises = "no" THEN {FALSE} ELSE BOOLEAN) :
          LET uf == estados[1]
              edital_info == extract_basic_info(card, card_i, uf)
              detailed_info == extract_complete_info(detail_ok)
              shown == IF accessed THEN "contratacao" ELSE "detail"
              out ==
                 IF page # "listing"
                 THEN [res |-> <<>>, page |-> page, kind |-> "none"]       \* index >= len(cards)
                 ELSE IF raises = "card"
                 \* the handler calls go_back from the listing itself
                 THEN [res |-> <<>>, page |-> IF back_again THEN GoBack(page) ELSE page,
                       kind |-> "none"]
                 ELSE IF raises = "go_back"
                 THEN [res |-> <<>>, page |-> IF back_again THEN GoBack(shown) ELSE shown,
                       kind |-> "none"]
                 ELSE [res |-> ProcessEditalReturn(edital_info, detailed_info),
                       page |-> GoBack(shown),
                       kind |-> IF detail_ok THEN "enriched" ELSE "detail_fail"]
          IN  /\ editais' = editais \o out.res
              /\ page' = out.page
              /\ stats' = Tally(stats, out.kind)
              /\ card_i' = card_i + 1
    /\ trace' = [trace EXCEPT !.visited = <<current_page, card_i>>]
    /\ UNCHANGED <<w_pc, variant, estados, limit, ri, all_editais, current_page,
                   editais_to_process, listing_left>>
    /\ UNCHANGED notWalk

\* scrape_editais returns editais; the run's batch is that list
ScrapeEditais_Return ==
    /\ w_pc = "cards" /\ variant = "items_only" /\ card_i = editais_to_process
    /\ all_editais' = editais
    /\ w_pc' = "done"
    /\ trace' = [trace EXCEPT !.finished = @ \cup {1}]
    /\ UNCHANGED <<variant, estados, limit, ri, editais, current_page, editais_to_process,
                   card_i, page, listing_left, stats>>
    /\ UNCHANGED notWalk

WalkNext ==
    \/ ScrapeEstado_Navigate \/ ScrapeEstado_While \/ ProcessEdital
    \/ ScrapeEstado_NextPage \/ ScrapeEstado_Return \/ ScrapeMultiplos_Return
    \/ ScrapeEditais_Start \/ ProcessEditalItemsOnly \/ ScrapeEditais_Return
    \/ ScrapeEstado_Raises \/ Interrupt

SpecWalk == WalkInit /\ [][WalkNext]_vars

-----------------------------------------------------------------------------
(* The Item Extractor on one detail page:                                   *)
(*   PNCPScraperFinal.extract_items_from_active_tab and                     *)
(*   PNCPScraperItemsOnly.extract_items_from_active_items_tab,              *)
(*   each with its extract_items_from_visible_text                          *)

\* a slice without its cap
FirstTen_NoCap(seq) == seq

\* seq[:10]
FirstTen(seq) == SubSeq(seq, 1, Min(Len(seq), RowCap))

\* the rows a selector matched that are visible and pass is_valid_items_row
RowsOf(n) == [k \in 1..n |-> k]

StructuralMethod(v) ==
    IF v = "final" THEN "angular_final_extraction" ELSE "angular_items_tab_only"
TextMethod(v) == IF v = "final" THEN "text_fallback_final" ELSE "text_fallback_items_only"

\* the items extract_items_from_visible_text collects from n item lines, before the slice
TextItems(v, n) == [k \in 1..n |-> [row |-> k, extraction_method |-> TextMethod(v)]]

\* an extractor that runs the text fallback whatever the selector loop gave
NeedsFallback_Always(v, its, found) == TRUE

\* the condition under which the text fallback is tried after the selector loop:
\*   PNCPScraperFinal:      if not items
\*   PNCPScraperItemsOnly:  if not rows_found
NeedsFallback(v, its, found) == IF v = "final" THEN its = <<>> ELSE ~found

ItemsInit ==
    /\ i_pc = "selector"
    /\ i_variant \in Variants
    /\ selector = 1
    /\ valid_rows = <<>>
    /\ row_k = 0
    /\ items = <<>>
    /\ rows_found = FALSE
    /\ result = <<>>
    /\ path = "none"
    /\ offered = 0
    /\ ReconIdle /\ WalkIdle /\ CurrencyIdle /\ SentinelIdle /\ DateIdle /\ RowsIdle /\ ConcIdle /\ SessionIdle /\ ParseIdle /\ TabsIdle /\ FilesIdle /\ PagesIdle /\ DownloadIdle

\* one selector of the list: locate the rows and keep the valid ones; a selector
\* that raises or has no valid row leads to the next selector
TrySelector ==
    /\ i_pc = "selector" /\ selector <= NumSelectors
    /\ \E n \in 0..MaxRows, raises \in BOOLEAN :
          IF raises \/ n = 0
          THEN /\ selector' = selector + 1
               /\ UNCHANGED <<i_pc, valid_rows, row_k, offered>>
          ELSE /\ valid_rows' = RowsOf(n)
               /\ row_k' = 0
               /\ offered' = n
               /\ i_pc' = "rows"
               /\ UNCHANGED selector
    /\ UNCHANGED <<i_variant, items, rows_found, result, path>>
    /\ UNCHANGED notItems

\* one iteration of "for i, row in enumerate(valid_rows[:10])": the row gives an
\* item, or None, or raises (and the loop continues)
ProcessRow ==
    /\ i_pc = "rows" /\ row_k < Len(FirstTen(valid_rows))
    /\ \E item_data \in BOOLEAN :
          items' = IF item_data
                   THEN Append(items, [row |-> FirstTen(valid_rows)[row_k + 1],
                                       extraction_method |-> StructuralMethod(i_variant)])
                   ELSE items
    /\ row_k' = row_k + 1
    /\ UNCHANGED <<i_pc, i_variant, selector, valid_rows, rows_found, result, path, offered>>
    /\ UNCHANGED notItems

\* the row loop is over: rows_found = True (items_only) and break
EndRows ==
    /\ i_pc = "rows" /\ row_k = Len(FirstTen(valid_rows))
    /\ rows_found' = TRUE
    /\ i_pc' = "after"
    /\ UNCHANGED <<i_variant, selector, valid_rows, row_k, items, result, path, offered>>
    /\ UNCHANGED notItems

\* no selector had a valid row
SelectorsExhausted ==
    /\ i_pc = "selector" /\ selector > NumSelectors
    /\ i_pc' = "after"
    /\ UNCHANGED <<i_variant, selector, valid_rows, row_k, items, rows_found, result,
                   path, offered>>
    /\ UNCHANGED notItems

\* after the selector loop: the text fallback when it is needed, then return items
ReturnItems ==
    /\ i_pc = "after"
    /\ IF NeedsFallback(i_variant, items, rows_found)
       THEN \E n \in 0..MaxRows, raises \in BOOLEAN :
               /\ items' = IF raises THEN <<>> ELSE FirstTen(TextItems(i_variant, n))
               /\ path' = "text"
               /\ offered' = IF raises THEN 0 ELSE n
       ELSE /\ path' = "structural"
            /\ UNCHANGED <<items, offered>>
    /\ result' = items'
    /\ i_pc' = "done"
    /\ UNCHANGED <<i_variant, selector, valid_rows, row_k, rows_found>>
    /\ UNCHANGED notItems

\* the outer except of the extractor: return []
ExtractRaises ==
    /\ i_pc \in {"selector", "rows", "after"}
    /\ result' = <<>>
    /\ path' = "none"
    /\ i_pc' = "done"
    /\ UNCHANGED <<i_variant, selector, valid_rows, row_k, items, rows_found, offered>>
    /\ UNCHANGED notItems

ItemsNext ==
    \/ TrySelector \/ ProcessRow \/ EndRows \/ SelectorsExhausted \/ ReturnItems
    \/ ExtractRaises

SpecItems == ItemsInit /\ [][ItemsNext]_vars

-----------------------------------------------------------------------------
(* Currency parsing: the three parsers of a monetary token                  *)
(*   PNCPScraperFinal.extract_angular_row_data_corrected  ("final")         *)
(*   PNCPScraperItemsOnly.extract_angular_row_data        ("items_only")    *)
(*   ScraperIntegrationService.safe_decimal_conversion    ("integration")   *)
(* A token is a sequence of symbols; "R$" is one symbol, "x" stands for any *)
(* character that is neither a digit, '.', ',', whitespace nor part of R$.  *)

Digits == {"0", "1", "2", "3", "4", "5", "6", "7", "8", "9"}
Alphabet == {"0", "1", "5", ".", ",", "R$", " ", "x"}

\* tokens longer than the bound that the properties name
ExampleTokens ==
    { <<"R$", " ", "1", ".", "2", "3", "4", ".", "5", "6", "7", ",", "8", "9">>,
      <<"R$", " ", "1", "5", "0", "0", ",", "0", "0">>,
      <<"R$", " ", "1", ".", "5", "0", "0">> }

Tokens == (SeqsUpTo(Alphabet, MaxTokLen) \ {<<>>}) \cup ExampleTokens

Parsers == {"final", "items_only", "integration"}

\* a parser's result: None, or the number int + 0.frac (frac without trailing zeros)
NoneValue == [none |-> TRUE, int |-> 0, frac |-> <<>>]

DigitVal(c) ==
    CASE c = "0" -> 0 [] c = "1" -> 1 [] c = "2" -> 2 [] c = "3" -> 3 [] c = "4" -> 4
      [] c = "5" -> 5 [] c = "6" -> 6 [] c = "7" -> 7 [] c = "8" -> 8 [] c = "9" -> 9

RECURSIVE NatOf(_)
NatOf(ds) == IF ds = <<>> THEN 0
             ELSE 10 * NatOf(SubSeq(ds, 1, Len(ds) - 1)) + DigitVal(ds[Len(ds)])

RECURSIVE DropTrailingZeros(_)
DropTrailingZeros(ds) ==
    IF ds # <<>> /\ ds[Len(ds)] = "0" THEN DropTrailingZeros(SubSeq(ds, 1, Len(ds) - 1))
    ELSE ds

Number(intDigits, fracDigits) ==
    [none |-> FALSE, int |-> NatOf(intDigits), frac |-> DropTrailingZeros(fracDigits)]

\* str methods on tokens
Has(t, c) == \E k \in 1..Len(t) : t[k] = c
Positions(t, c) == {k \in 1..Len(t) : t[k] = c}
Keep(t, S) == SelectSeq(t, LAMBDA c : c \in S)
Remove(t, c) == SelectSeq(t, LAMBDA x : x # c)                     \* t.replace(c, '')
Replace(t, c, d) == [k \in 1..Len(t) |-> IF t[k] = c THEN d ELSE t[k]]  \* t.replace(c, d)
AllIn(t, S) == \A k \in 1..Len(t) : t[k] \in S

RECURSIVE Strip(_)
Strip(t) ==                                                         \* t.strip()
    IF t # <<>> /\ t[1] \in {" ", "\t"} THEN Strip(Tail(t))
    ELSE IF t # <<>> /\ t[Len(t)] \in {" ", "\t"} THEN Strip(SubSeq(t, 1, Len(t) - 1))
    ELSE t

\* float(s) and Decimal(s) on the symbols of the model: surrounding whitespace is
\* ignored, then digits with at most one '.', at least one digit; anything else
\* raises ValueError / InvalidOperation (raised = TRUE)
PyNumber(s) ==
    LET t == Strip(s)
        dots == Positions(t, ".")
    IN  IF AllIn(t, Digits \cup {"."}) /\ Cardinality(dots) <= 1 /\ Remove(t, ".") # <<>>
        THEN [raised |-> FALSE,
              value |-> IF dots = {} THEN Number(t, <<>>)
                        ELSE LET d == CHOOSE k \in dots : TRUE
                             IN  Number(SubSeq(t, 1, d - 1), SubSeq(t, d + 1, Len(t)))]
        ELSE [raised |-> TRUE, value |-> NoneValue]

\* the lines "if ',' in ...: parts = ....split(','); if len(parts) == 2: integer part
\* without dots + '.' + decimal part", shared by "final" and "integration"
JoinTwoParts(t) ==
    LET c == CHOOSE k \in Positions(t, ",") : TRUE
    IN  Remove(SubSeq(t, 1, c - 1), ".") \o <<".">> \o SubSeq(t, c + 1, Len(t))

\* PNCPScraperFinal: the body of "if 'R$' in data: try: ... float(valor_str)";
\* the except clause swallows the exception and the value stays None
ParseFinal(data) ==
    IF ~Has(data, "R$") THEN NoneValue
    ELSE LET valor_clean == Strip(Remove(data, "R$"))
             valor_str ==
                IF Has(valor_clean, ",")
                THEN IF Cardinality(Positions(valor_clean, ",")) = 1
                     THEN JoinTwoParts(valor_clean)
                     ELSE Replace(Remove(valor_clean, "."), ",", ".")
                ELSE Remove(valor_clean, ".")
         IN  PyNumber(valor_str).value

\* re.search(r'R\$\s*([\d.,]+)', data): the leftmost R$ that is followed, after
\* optional whitespace, by at least one of [\d.,]; group(1) is the longest such run
RECURSIVE SkipSpaces(_, _)
SkipSpaces(t, k) == IF k <= Len(t) /\ t[k] = " " THEN SkipSpaces(t, k + 1) ELSE k

RECURSIVE RunEnd(_, _)
RunEnd(t, k) ==
    IF k <= Len(t) /\ t[k] \in Digits \cup {".", ","} THEN RunEnd(t, k + 1) ELSE k

ValorMatches(t) ==
    {k \in Positions(t, "R$") : RunEnd(t, SkipSpaces(t, k + 1)) > SkipSpaces(t, k + 1)}

ValorGroup(t) ==
    LET k == CHOOSE m \in ValorMatches(t) : \A n \in ValorMatches(t) : m <= n
        b == SkipSpaces(t, k + 1)
    IN  SubSeq(t, b, RunEnd(t, b) - 1)

\* PNCPScraperItemsOnly: "if 'R$' in data: try: ... float(valor_str) except: pass"
ParseItemsOnly(data) ==
    IF ~Has(data, "R$") \/ ValorMatches(data) = {} THEN NoneValue
    ELSE PyNumber(Replace(Remove(ValorGroup(data), "."), ",", ".")).value

\* safe_decimal_conversion of a str; of the words it maps to None only '' can be
\* written with the symbols of the model
ParseIntegration(value) ==
    LET str_value == Strip(value)
        stripped == Keep(str_value, Digits \cup {",", "."})
        clean_value ==
            IF Has(stripped, ",") /\ ~Has(stripped, ".")
            THEN Replace(stripped, ",", ".")
            ELSE IF Has(stripped, ",") /\ Has(stripped, ".")
                    /\ Cardinality(Positions(stripped, ",")) = 1
            THEN JoinTwoParts(stripped)
            ELSE stripped
    IN  IF str_value = <<>> THEN NoneValue
        ELSE IF clean_value # <<>> THEN PyNumber(clean_value).value
        ELSE NoneValue

NotParsed == [done |-> FALSE, value |-> NoneValue]

CurrencyInit ==
    /\ token \in Tokens
    /\ parsed = [p \in Parsers |-> NotParsed]
    /\ ReconIdle /\ WalkIdle /\ ItemsIdle /\ SentinelIdle /\ DateIdle /\ RowsIdle /\ ConcIdle /\ SessionIdle /\ ParseIdle /\ TabsIdle /\ FilesIdle /\ PagesIdle /\ DownloadIdle

\* the row loop of PNCPScraperFinal reaches the cell
Parse_Final ==
    /\ parsed # <<>> /\ ~parsed["final"].done
    /\ parsed' = [parsed EXCEPT !["final"] = [done |-> TRUE, value |-> ParseFinal(token)]]
    /\ UNCHANGED token
    /\ UNCHANGED notCurrency

\* the row loop of PNCPScraperItemsOnly reaches the cell
Parse_ItemsOnly ==
    /\ parsed # <<>> /\ ~parsed["items_only"].done
    /\ parsed' = [parsed EXCEPT !["items_only"] =
                     [done |-> TRUE, value |-> ParseItemsOnly(token)]]
    /\ UNCHANGED token
    /\ UNCHANGED notCurrency

\* the integration service converts the value before it is stored
Parse_Integration ==
    /\ parsed # <<>> /\ ~parsed["integration"].done
    /\ parsed' = [parsed EXCEPT !["integration"] =
                     [done |-> TRUE, value |-> ParseIntegration(token)]]
    /\ UNCHANGED token
    /\ UNCHANGED notCurrency

CurrencyNext == Parse_Final \/ Parse_ItemsOnly \/ Parse_Integration

SpecCurrency == CurrencyInit /\ [][CurrencyNext]_vars

-----------------------------------------------------------------------------
(* The value cells of one row: extract_angular_row_data_corrected /         *)
(* extract_angular_row_data fill valor_unitario and valor_total, and        *)
(* ScraperIntegrationService stores them through safe_decimal_conversion    *)

\* the str "Sigiloso" that the scrapers put in place of a number
SigilosoValue == [none |-> FALSE, int |-> 0, frac |-> <<>>, str |-> "Sigiloso"]

\* words are single symbols; str.lower() of a word
Lower(w) ==
    CASE w = "Sigiloso" -> "sigiloso"
      [] w = "SIGILOSO" -> "sigiloso"
      [] w = "Inclusão" -> "inclusão"
      [] w = "R$" -> "r$"
      [] OTHER -> w

\* the list safe_decimal_conversion compares str_value.lower() with
NonNumericWords == {"sigiloso", "sigilosa", "n/a", "não informado", ""}

ValueCells ==
    { <<"Sigiloso">>, <<"sigiloso">>, <<"SIGILOSO">>,
      <<"R$", " ", "0", ",", "0", "0">>, <<"R$", " ", "1", ",", "5">>,
      <<"1", "5">>, <<"x">> }

CellRows == SeqsUpTo(ValueCells, MaxValueCells) \ {<<>>}

NoValues == [valor_unitario |-> NoneValue, valor_total |-> NoneValue]

\* "if valor_unitario is None: valor_unitario = v  else: valor_total = v"
Assign(acc, v) ==
    IF acc.valor_unitario = NoneValue THEN [acc EXCEPT !.valor_unitario = v]
    ELSE [acc EXCEPT !.valor_total = v]

\* a cell test that accepts the marker in any letter case
IsSigilosoCell_AnyCase(data) == Len(data) = 1 /\ Lower(data[1]) = "sigiloso"

\* elif data == "Sigiloso"
IsSigilosoCell(data) == data = <<"Sigiloso">>

\* "for data in cell_data: if 'R$' in data: ... elif data == 'Sigiloso': ..."
RECURSIVE ExtractValues(_, _, _)
ExtractValues(v, cell_data, acc) ==
    IF cell_data = <<>> THEN acc
    ELSE LET data == Head(cell_data)
             number == IF v = "final" THEN ParseFinal(data) ELSE ParseItemsOnly(data)
             next == IF Has(data, "R$")
                     THEN (IF number = NoneValue THEN acc ELSE Assign(acc, number))
                     ELSE IF IsSigilosoCell(data) THEN Assign(acc, SigilosoValue)
                     ELSE acc
         IN  ExtractValues(v, Tail(cell_data), next)

\* str(n) of a natural number, as symbols
RECURSIVE NatDigits(_)
NatDigits(n) ==
    LET d == CHOOSE c \in Digits : DigitVal(c) = n % 10
    IN  IF n < 10 THEN <<d>> ELSE NatDigits(n \div 10) \o <<d>>

\* str(value) of a float
FloatStr(v) == NatDigits(v.int) \o <<".">> \o (IF v.frac = <<>> THEN <<"0">> ELSE v.frac)

\* safe_decimal_conversion(item_data.get('valor_unitario')): None stays None, a str
\* whose lower case is in the list gives None, a float goes through str()
safe_decimal_conversion(value) ==
    IF value = NoneValue THEN NoneValue
    ELSE IF value = SigilosoValue
    THEN (IF Lower(value.str) \in NonNumericWords THEN NoneValue
          ELSE ParseIntegration(<<value.str>>))
    ELSE ParseIntegration(FloatStr(value))

SentinelInit ==
    /\ s_pc = "row"
    /\ s_variant \in Variants
    /\ cells \in CellRows
    /\ item = NoValues
    /\ stored = NoValues
    /\ ReconIdle /\ WalkIdle /\ ItemsIdle /\ CurrencyIdle /\ DateIdle /\ RowsIdle /\ ConcIdle /\ SessionIdle /\ ParseIdle /\ TabsIdle /\ FilesIdle /\ PagesIdle /\ DownloadIdle

\* the row loop of the Item Extractor builds the item
ExtractRowValues ==
    /\ s_pc = "row"
    /\ item' = ExtractValues(s_variant, cells, NoValues)
    /\ s_pc' = "item"
    /\ UNCHANGED <<s_variant, cells, stored>>
    /\ UNCHANGED notSentinel

\* run_scraping_async / load_json_to_database create the TenderItem
StoreItem ==
    /\ s_pc = "item"
    /\ stored' = [valor_unitario |-> safe_decimal_conversion(item.valor_unitario),
                  valor_total |-> safe_decimal_conversion(item.valor_total)]
    /\ s_pc' = "stored"
    /\ UNCHANGED <<s_variant, cells, item>>
    /\ UNCHANGED notSentinel

SentinelNext == ExtractRowValues \/ StoreItem

SpecSentinel == SentinelInit /\ [][SentinelNext]_vars

-----------------------------------------------------------------------------
(* The publication date: card extraction and the Reconciler *)

\* A date text is [fmt, day]: fmt says how it is written, day which calendar
\* day it names; day 0 is a well-formed text that names no calendar day
\* (31/02/2024), which the regular expression accepts and strptime rejects.
NoText == [fmt |-> "missing", day |-> 0]        \* None, or the key is absent
NullDate == [fmt |-> "null", day |-> 0]         \* NULL in the column
Iso(d) == [fmt |-> "iso", day |-> d]            \* "2024-02-01"
Br(d) == [fmt |-> "br", day |-> d]              \* "01/02/2024"
DateOf(d) == [fmt |-> "date", day |-> d]        \* a datetime.date
Days == 1..MaxDay
DateTexts ==
    {[fmt |-> "empty", day |-> 0], [fmt |-> "junk", day |-> 0]}
    \cup {Iso(d) : d \in 0..MaxDay} \cup {Br(d) : d \in 0..MaxDay}
\* the card text: whether it has the label, and the text after the label
CardDates == [label : BOOLEAN, text : DateTexts]

\* datetime.strptime(text, fmt) raises unless the text is written in the
\* format and names a calendar day
StrptimeRaises(text, fmt) == ~(text.fmt = fmt /\ text.day \in Days)
Strptime(text, fmt) == DateOf(text.day)

\* re.search(r'(\d{1,2}/\d{1,2}/\d{4})', date_part)
DatePatternMatches(text) == text.fmt = "br"

\* extract_basic_info_corrected: "publication_date": datetime.now().strftime("%Y-%m-%d")
publication_date_final(card, now) == Iso(now)

\* safe_extract_date
safe_extract_date(card, now) ==
    IF card.label /\ DatePatternMatches(card.text)
          /\ ~StrptimeRaises(card.text, "br")
    THEN Iso(Strptime(card.text, "br").day)
    ELSE Iso(now)

\* inserir_no_banco: try strptime(edital.get('publication_date', ''), '%Y-%m-%d').date()
\* except: datetime.now().date()
publication_date_stored(text, now) ==
    IF ~StrptimeRaises(text, "iso") THEN Strptime(text, "iso") ELSE DateOf(now)

\* save_to_database of the items-only scraper binds the text as it is
publication_date_saved(text) ==
    IF text = NoText THEN NullDate ELSE text

DateInit ==
    /\ d_pc = "card"
    /\ d_variant \in Variants
    /\ card_date \in CardDates
    /\ today \in Days
    /\ pub = NoText /\ given = NoText /\ stored_date = NullDate
    /\ ReconIdle /\ WalkIdle /\ ItemsIdle /\ CurrencyIdle /\ SentinelIdle /\ RowsIdle /\ ConcIdle /\ SessionIdle /\ ParseIdle /\ TabsIdle /\ FilesIdle /\ PagesIdle /\ DownloadIdle

\* the card's record is built
ExtractCardDate ==
    /\ d_pc = "card"
    /\ pub' = IF d_variant = "final"
              THEN publication_date_final(card_date, today)
              ELSE safe_extract_date(card_date, today)
    /\ d_pc' = "produced"
    /\ UNCHANGED <<d_variant, card_date, today, given, stored_date>>
    /\ UNCHANGED notDate

\* the produced record is stored
StoreProduced ==
    /\ d_pc = "produced"
    /\ given' = pub
    /\ stored_date' = IF d_variant = "final"
                      THEN publication_date_stored(pub, today)
                      ELSE publication_date_saved(pub)
    /\ d_pc' = "stored"
    /\ UNCHANGED <<d_variant, card_date, today, pub>>
    /\ UNCHANGED notDate

\* inserir_no_banco is given a record of a batch from elsewhere
StoreGiven ==
    /\ d_pc = "produced"
    /\ d_variant = "final"
    /\ \E text \in DateTexts \cup {NoText} :
          /\ given' = text
          /\ stored_date' = publication_date_stored(text, today)
    /\ d_pc' = "stored"
    /\ UNCHANGED <<d_variant, card_date, today, pub>>
    /\ UNCHANGED notDate

DateNext == ExtractCardDate \/ StoreProduced \/ StoreGiven

SpecDate == DateInit /\ [][DateNext]_vars

-----------------------------------------------------------------------------
(* The Row Validator: is_valid_items_row of both scrapers *)

\* A row text is a sequence of pieces; the patterns of the validator are
\* evaluated on what the pieces spell.  "\\" is one backslash character.
Pieces == {"01/02/2024", "10:30:00", " ", "caneta", ".pdf", ".doc", ".rar",
           "Inclusão", "contratação", "documento", "alteração", "publicação",
           "1", "R$", "\\"}
RowTexts == SeqsUpTo(Pieces, MaxRowPieces)

PieceLen(c) ==
    CASE c = "01/02/2024" -> 10 [] c = "10:30:00" -> 8 [] c = "caneta" -> 6
      [] c \in {".pdf", ".doc", ".rar"} -> 4 [] c = "inclusão" -> 8
      [] c = "contratação" -> 11 [] c = "documento" -> 9 [] c = "alteração" -> 9
      [] c = "publicação" -> 10 [] c = "r$" -> 2 [] c = "sigiloso" -> 8 [] OTHER -> 1
\* how many digits the piece holds
PieceDigits(c) ==
    CASE c = "01/02/2024" -> 8 [] c = "10:30:00" -> 6 [] c = "1" -> 1 [] OTHER -> 0
\* str.isalpha()
PieceIsAlpha(c) ==
    c \in {"caneta", "inclusão", "contratação", "documento", "alteração", "publicação",
           "sigiloso"}
\* [a-zA-Z]{3,} matches inside the piece
PieceHasLetters(c) == PieceIsAlpha(c) \/ c \in {".pdf", ".doc", ".rar"}

LowerAll(t) == [k \in 1..Len(t) |-> Lower(t[k])]

RECURSIVE TextLen(_)
TextLen(t) == IF t = <<>> THEN 0 ELSE PieceLen(Head(t)) + TextLen(Tail(t))

RECURSIVE DigitsIn(_)
DigitsIn(t) == IF t = <<>> THEN 0 ELSE PieceDigits(Head(t)) + DigitsIn(Tail(t))

\* a.*b
Then(t, a, b) == \E i, j \in 1..Len(t) : i < j /\ t[i] = a /\ t[j] = b

\* the text ends with the piece
EndsWith(t, c) == t # <<>> /\ t[Len(t)] = c

\* text.split(): the words between the blanks
RECURSIVE Split(_, _)
Split(t, word) ==
    IF t = <<>> THEN (IF word = <<>> THEN <<>> ELSE <<word>>)
    ELSE IF Head(t) \in {" ", "\t"}
    THEN (IF word = <<>> THEN <<>> ELSE <<word>>) \o Split(Tail(t), <<>>)
    ELSE Split(Tail(t), Append(word, Head(t)))

\* [w for w in words if len(w) > 3 and w.isalpha()]
SignificantWords(t) ==
    SelectSeq(Split(t, <<>>),
              LAMBDA w : TextLen(w) > 3 /\ \A k \in 1..Len(w) : PieceIsAlpha(w[k]))

\* invalid_patterns of the items-only scraper
InvalidItemsOnly(t) ==
    \/ Then(t, "01/02/2024", "10:30:00")        \* \d{2}/\d{2}/\d{4}.*\d{2}:\d{2}:\d{2}
    \/ Then(t, "inclusão", "contratação")
    \/ Then(t, "inclusão", "documento")
    \/ Has(t, "alteração")
    \/ Has(t, "publicação")
    \/ EndsWith(t, ".pdf") \/ EndsWith(t, ".doc") \/ EndsWith(t, ".rar")
    \/ Has(t, "ilovepdf") \/ Has(t, "merged")
    \/ t = <<>>                                  \* ^$ and ^\s*$ after strip()

\* valid_patterns of the items-only scraper
ValidPatternItemsOnly(t) ==
    \/ \E i, j, k \in 1..Len(t) :               \* \d+.*[a-zA-Z]{3,}.*\d+
          i < j /\ j < k /\ PieceDigits(t[i]) > 0 /\ PieceHasLetters(t[j])
          /\ PieceDigits(t[k]) > 0
    \/ \E j, k, l \in 1..Len(t) :               \* [a-zA-Z]{3,}.*\d+.*r\$
          j < k /\ k < l /\ PieceHasLetters(t[j]) /\ PieceDigits(t[k]) > 0
          /\ t[l] = "r$"
    \/ \E j \in 1..Len(t) :                     \* [a-zA-Z]{3,}.*\d+.*\d+
          PieceHasLetters(t[j]) /\ DigitsIn(SubSeq(t, j + 1, Len(t))) >= 2

\* re.match(r'^[\d\s/:-]+$', text)
OnlyNumbersItemsOnly(t) ==
    t # <<>> /\ AllIn(t, {"01/02/2024", "10:30:00", " ", "\t", "1"})

\* In the final scraper every backslash of the patterns is written twice
\* inside a raw string: '\\d' is a backslash followed by the letter d,
\* '\\.' a backslash followed by any character, '\\s' a backslash followed
\* by the letter s, and 'r\\$' the letter r, a backslash, end of text.
BackslashD(t, i) == i < Len(t) /\ t[i] = "\\" /\ t[i + 1] = "documento"

InvalidFinal(t) ==
    \/ FALSE     \* '\\d{2}/...': a backslash followed by "dd/", which no piece spells
    \/ \E c \in {".pdf", ".doc", ".rar"} :      \* '\\.pdf$'
          Len(t) >= 2 /\ t[Len(t)] = c /\ t[Len(t) - 1] = "\\"
    \/ t = <<>>                                  \* '^$'
    \/ t = <<"\\">>                              \* '^\\s*$'
    \/ Then(t, "inclusão", "contratação")
    \/ Then(t, "inclusão", "documento")
    \/ Has(t, "alteração")
    \/ Has(t, "publicação")

ValidPatternFinal(t) ==
    \/ \E i, k \in 1..Len(t) :                  \* '\\d+.*[a-zA-Z]{3,}.*\\d+'
          BackslashD(t, i) /\ BackslashD(t, k) /\ k >= i + 2
    \/ \E j, k \in 1..Len(t) :                  \* '[a-zA-Z]{3,}.*\\d+.*r\\$'
          j < k /\ PieceHasLetters(t[j]) /\ BackslashD(t, k)
          /\ Len(t) >= k + 3 /\ t[Len(t)] = "\\" /\ t[Len(t) - 1] = ".rar"
    \/ \E j, k, m \in 1..Len(t) :               \* '[a-zA-Z]{3,}.*\\d+.*\\d+'
          j < k /\ PieceHasLetters(t[j]) /\ BackslashD(t, k) /\ BackslashD(t, m)
          /\ m >= k + 2

\* re.match(r'^[\\d\\s/:-]+$', text): only the characters \ d s / : -
OnlyNumbersFinal(t) == t # <<>> /\ AllIn(t, {"\\"})

is_valid_items_row(v, row) ==
    LET text == LowerAll(Strip(row))
        invalid == IF v = "final" THEN InvalidFinal(text) ELSE InvalidItemsOnly(text)
        pattern == IF v = "final" THEN ValidPatternFinal(text)
                   ELSE ValidPatternItemsOnly(text)
        only_numbers == IF v = "final" THEN OnlyNumbersFinal(text)
                        ELSE OnlyNumbersItemsOnly(text)
    IN  IF invalid THEN FALSE
        ELSE IF pattern /\ Len(SignificantWords(text)) > 0 THEN TRUE
        ELSE IF TextLen(text) >= 10 /\ ~only_numbers THEN TRUE
        ELSE FALSE

RowsInit ==
    /\ v_pc = "row"
    /\ v_variant \in Variants
    /\ row_text \in RowTexts
    /\ valid = FALSE
    /\ ReconIdle /\ WalkIdle /\ ItemsIdle /\ CurrencyIdle /\ SentinelIdle /\ DateIdle /\ ConcIdle /\ SessionIdle /\ ParseIdle /\ TabsIdle /\ FilesIdle /\ PagesIdle /\ DownloadIdle

ValidateRow ==
    /\ v_pc = "row"
    /\ valid' = is_valid_items_row(v_variant, row_text)
    /\ v_pc' = "validated"
    /\ UNCHANGED <<v_variant, row_text>>
    /\ UNCHANGED notRows

RowsNext == ValidateRow

SpecRows == RowsInit /\ [][RowsNext]_vars

-----------------------------------------------------------------------------
(* Two executions of inserir_no_banco at the same time.  The scheduler runs  *)
(* jobs on a ThreadPoolExecutor(20) with max_instances 3; each execution has *)
(* its own connection and one transaction (READ COMMITTED) that ends at      *)
(* conn.commit().                                                            *)

Procs == {1, 2}
Other(p) == 3 - p
ConcIds == {"A", "B"}
\* the records of execution p carry its own title
ConcRecords(p) == {[pncp_id |-> id, title |-> p] : id \in ConcIds}
ConcBatches(p) == SeqsUpTo(ConcRecords(p), MaxConcBatch) \ {<<>>}
ConcStores == {<<>>, <<[pncp_id |-> "A", title |-> 0]>>}

CommittedIds(rows) == {rows[k].pncp_id : k \in 1..Len(rows)}
HasWrite(pending, kind, id) ==
    \E k \in 1..Len(pending) : pending[k].kind = kind /\ pending[k].rec.pncp_id = id

\* if pncp_id and pncp_id in existing_ids: UPDATE ... else: INSERT ...
ConcStatement(rec, ids) == IF rec.pncp_id \in ids THEN "update" ELSE "insert"

\* the statement waits for the transaction of the other execution: an INSERT
\* for a key the other has inserted, an UPDATE of a row the other has updated
Waits(kind, rec, other_pending) == HasWrite(other_pending, kind, rec.pncp_id)

\* the statement raises: the transaction is already aborted, or the INSERT
\* meets a row with the same pncp_id (committed, or inserted by itself)
Raises(kind, rec, rows, own_pending, aborted) ==
    \/ aborted
    \/ kind = "insert" /\ rec.pncp_id \in CommittedIds(rows)
    \/ kind = "insert" /\ HasWrite(own_pending, "insert", rec.pncp_id)

\* conn.commit(): the writes of the transaction become rows, in order
RECURSIVE Apply(_, _)
Apply(rows, pending) ==
    IF pending = <<>> THEN rows
    ELSE LET w == Head(pending)
             next == IF w.kind = "insert" THEN Append(rows, w.rec)
                     ELSE [k \in 1..Len(rows) |->
                              IF rows[k].pncp_id = w.rec.pncp_id
                              THEN [rows[k] EXCEPT !.title = w.rec.title]
                              ELSE rows[k]]
         IN  Apply(next, Tail(pending))

ConcInit ==
    /\ c_pc = [p \in Procs |-> "start"]
    /\ c_batch \in [Procs -> UNION {ConcBatches(p) : p \in Procs}]
    /\ \A p \in Procs : c_batch[p] \in ConcBatches(p)
    /\ c_ids = [p \in Procs |-> {}]
    /\ c_pos = [p \in Procs |-> 1]
    /\ c_pending = [p \in Procs |-> <<>>]
    /\ c_aborted = [p \in Procs |-> FALSE]
    /\ c_store \in ConcStores
    /\ c_order = <<>>
    /\ ReconIdle /\ WalkIdle /\ ItemsIdle /\ CurrencyIdle /\ SentinelIdle /\ DateIdle /\ SessionIdle /\ ParseIdle /\ TabsIdle /\ FilesIdle /\ PagesIdle /\ DownloadIdle
    /\ RowsIdle /\ SessionIdle /\ ParseIdle /\ TabsIdle /\ FilesIdle /\ PagesIdle /\ DownloadIdle

\* conectar_banco and SELECT pncp_id FROM tenders WHERE pncp_id IS NOT NULL
ConcSelect(p) ==
    /\ c_pc[p] = "start"
    /\ c_ids' = [c_ids EXCEPT ![p] = CommittedIds(c_store)]
    /\ c_pc' = [c_pc EXCEPT ![p] = "loop"]
    /\ UNCHANGED <<c_batch, c_pos, c_pending, c_aborted, c_store, c_order>>
    /\ UNCHANGED notConc

\* one iteration of the write loop: the statement is executed, or raises and
\* the handler continues with the next record
ConcWrite(p) ==
    /\ c_pc[p] = "loop" /\ c_pos[p] <= Len(c_batch[p])
    /\ LET rec == c_batch[p][c_pos[p]]
           kind == ConcStatement(rec, c_ids[p])
       IN  IF Raises(kind, rec, c_store, c_pending[p], c_aborted[p])
           THEN /\ c_aborted' = [c_aborted EXCEPT ![p] = TRUE]
                /\ UNCHANGED c_pending
           ELSE /\ ~Waits(kind, rec, c_pending[Other(p)])
                /\ c_pending' = [c_pending EXCEPT
                                    ![p] = Append(@, [kind |-> kind, rec |-> rec])]
                /\ UNCHANGED c_aborted
    /\ c_pos' = [c_pos EXCEPT ![p] = @ + 1]
    /\ UNCHANGED <<c_pc, c_batch, c_ids, c_store, c_order>>
    /\ UNCHANGED notConc

\* both executions wait for each other: PostgreSQL aborts the statement of one
ConcDeadlock(p) ==
    /\ \A q \in Procs :
          /\ c_pc[q] = "loop" /\ c_pos[q] <= Len(c_batch[q])
          /\ LET rec == c_batch[q][c_pos[q]]
                 kind == ConcStatement(rec, c_ids[q])
             IN  /\ ~Raises(kind, rec, c_store, c_pending[q], c_aborted[q])
                 /\ Waits(kind, rec, c_pending[Other(q)])
    /\ c_aborted' = [c_aborted EXCEPT ![p] = TRUE]
    /\ c_pos' = [c_pos EXCEPT ![p] = @ + 1]
    /\ UNCHANGED <<c_pc, c_batch, c_ids, c_pending, c_store, c_order>>
    /\ UNCHANGED notConc

\* conn.commit(): on an aborted transaction it rolls back
ConcCommit(p) ==
    /\ c_pc[p] = "loop" /\ c_pos[p] > Len(c_batch[p])
    /\ IF c_aborted[p]
       THEN UNCHANGED <<c_store, c_order>>
       ELSE /\ c_store' = Apply(c_store, c_pending[p])
            /\ c_order' = Append(c_order, p)
    /\ c_pending' = [c_pending EXCEPT ![p] = <<>>]
    /\ c_pc' = [c_pc EXCEPT ![p] = "done"]
    /\ UNCHANGED <<c_batch, c_ids, c_pos, c_aborted>>
    /\ UNCHANGED notConc

ConcNext ==
    \E p \in Procs : ConcSelect(p) \/ ConcWrite(p) \/ ConcDeadlock(p) \/ ConcCommit(p)

SpecConc == ConcInit /\ [][ConcNext]_vars

-----------------------------------------------------------------------------
(* The session of a run: "async with scraper" around the scraping, with      *)
(* __aenter__ = start() and __aexit__ = close().  main builds a new object   *)
(* for its run; ScraperIntegrationService keeps one object for all its runs. *)

Entries == {"main", "service"}

\* "async with": an exception inside __aenter__ leaves the statement without
\* __aexit__; after __aenter__ returned, __aexit__ runs on every exit
AfterEnterFailure == "returned"
AfterBody == "close"

SessionInit ==
    /\ x_pc = "enter"
    /\ x_variant \in Variants
    /\ x_entry \in Entries
    \* the service runs PNCPScraperFinal
    /\ x_entry = "service" => x_variant = "final"
    /\ x_run = 1
    /\ x_exc = "none"
    /\ self_browser = "none" /\ self_playwright = "unset"
    /\ live_drivers = 0 /\ live_browsers = 0
    /\ ReconIdle /\ WalkIdle /\ ItemsIdle /\ CurrencyIdle /\ SentinelIdle /\ DateIdle /\ ParseIdle /\ TabsIdle /\ FilesIdle /\ PagesIdle /\ DownloadIdle
    /\ RowsIdle /\ ConcIdle /\ ParseIdle /\ TabsIdle /\ FilesIdle /\ PagesIdle /\ DownloadIdle

\* start(): self.playwright = await async_playwright().start()
Start_Driver ==
    /\ x_pc = "enter"
    /\ \E ok \in BOOLEAN :
          IF ok
          THEN /\ self_playwright' = "started"
               /\ live_drivers' = live_drivers + 1
               /\ x_pc' = "launch"
               /\ UNCHANGED x_exc
          ELSE /\ x_exc' = "start"
               /\ x_pc' = AfterEnterFailure
               /\ UNCHANGED <<self_playwright, live_drivers>>
    /\ UNCHANGED <<x_variant, x_entry, x_run, self_browser, live_browsers>>
    /\ UNCHANGED notSession

\* start(): self.browser = await self.playwright.chromium.launch(...)
Start_Launch ==
    /\ x_pc = "launch"
    /\ \E ok \in BOOLEAN :
          IF ok
          THEN /\ self_browser' = "open"
               /\ live_browsers' = live_browsers + 1
               /\ x_pc' = "context"
               /\ UNCHANGED x_exc
          ELSE /\ x_exc' = "start"
               /\ x_pc' = AfterEnterFailure
               /\ UNCHANGED <<self_browser, live_browsers>>
    /\ UNCHANGED <<x_variant, x_entry, x_run, self_playwright, live_drivers>>
    /\ UNCHANGED notSession

\* start(): new_context(...), new_page(); __aenter__ returns self
Start_Context ==
    /\ x_pc = "context"
    /\ \E ok \in BOOLEAN :
          IF ok THEN x_pc' = "body" /\ UNCHANGED x_exc
                ELSE x_pc' = AfterEnterFailure /\ x_exc' = "start"
    /\ UNCHANGED <<x_variant, x_entry, x_run, self_browser, self_playwright,
                   live_drivers, live_browsers>>
    /\ UNCHANGED notSession

\* the body of "async with": it completes, or an exception leaves it
Body ==
    /\ x_pc = "body"
    /\ \E raised \in BOOLEAN : x_exc' = IF raised THEN "scraping" ELSE "none"
    /\ x_pc' = AfterBody
    /\ UNCHANGED <<x_variant, x_entry, x_run, self_browser, self_playwright,
                   live_drivers, live_browsers>>
    /\ UNCHANGED notSession

\* close(): if self.browser: await self.browser.close()
Close_Browser ==
    /\ x_pc = "close"
    /\ IF self_browser = "none"
       THEN /\ x_pc' = "stop"
            /\ UNCHANGED <<x_exc, self_browser, live_browsers>>
       ELSE \E ok \in BOOLEAN :
               IF ok
               THEN /\ self_browser' = "closed"
                    /\ live_browsers' = IF self_browser = "open" THEN live_browsers - 1
                                        ELSE live_browsers
                    /\ x_pc' = "stop"
                    /\ UNCHANGED x_exc
               ELSE /\ x_exc' = "close"
                    /\ x_pc' = "returned"
                    /\ UNCHANGED <<self_browser, live_browsers>>
    /\ UNCHANGED <<x_variant, x_entry, x_run, self_playwright, live_drivers>>
    /\ UNCHANGED notSession

\* close(): if hasattr(self, 'playwright'): await self.playwright.stop()
Close_Driver ==
    /\ x_pc = "stop"
    /\ IF self_playwright = "started"
       THEN self_playwright' = "stopped" /\ live_drivers' = live_drivers - 1
       ELSE UNCHANGED <<self_playwright, live_drivers>>
    /\ x_pc' = "returned"
    /\ UNCHANGED <<x_variant, x_entry, x_run, x_exc, self_browser, live_browsers>>
    /\ UNCHANGED notSession

\* the next run: main is a new process with a new object, the service enters
\* "async with self.scraper" on the object it keeps
NextRun ==
    /\ x_pc = "returned" /\ x_run < MaxRuns
    /\ x_run' = x_run + 1
    /\ x_exc' = "none"
    /\ x_pc' = "enter"
    /\ IF x_entry = "main"
       THEN self_browser' = "none" /\ self_playwright' = "unset"
       ELSE UNCHANGED <<self_browser, self_playwright>>
    /\ UNCHANGED <<x_variant, x_entry, live_drivers, live_browsers>>
    /\ UNCHANGED notSession

SessionNext ==
    \/ Start_Driver \/ Start_Launch \/ Start_Context \/ Body
    \/ Close_Browser \/ Close_Driver \/ NextRun

SpecSession == SessionInit /\ [][SessionNext]_vars

-----------------------------------------------------------------------------
(* The two row parsers of the Item Extractor: the structural one reads the
   cells of a table row, the text fallback reads the same row as one line of
   the visible text *)

MaxFields == 4     \* fields in one row

Fields == { <<"1">>, <<"caneta">>, <<"R$", " ", "1">>, <<"Sigiloso">>, <<>> }
FieldRows == { r \in SeqsUpTo(Fields, MaxFields) : Len(r) >= 3 }
Separators == { <<"\t">>, <<" ", " ", " ">> }

\* sep.join(parts)
RECURSIVE Join(_, _)
Join(parts, sep) ==
    IF parts = <<>> THEN <<>>
    ELSE IF Len(parts) = 1 THEN parts[1]
    ELSE parts[1] \o sep \o Join(Tail(parts), sep)

\* str.isdigit()
IsDigit(f) == f # <<>> /\ \A k \in 1..Len(f) : f[k] \in Digits

\* f"Item {index + 1}"
ItemName(index) == <<"Item", " ">> \o NatDigits(index + 1)

\* "for data in list: if <test>: quantidade = int(data); break"; <<>> is None
FirstInt(list, Test(_)) ==
    LET hits == SelectSeq(list, Test)
    IN  IF hits = <<>> THEN <<>> ELSE <<NatOf(hits[1])>>

\* extract_angular_row_data_corrected / extract_angular_row_data on the texts
\* of the cells: <<>> is None
extract_angular_row_data(v, cell_data, index) ==
    IF Len(cell_data) < 3 THEN <<>>
    ELSE IF ~is_valid_items_row(v, Join(cell_data, <<" ">>)) THEN <<>>
    ELSE LET values == ExtractValues(v, cell_data, NoValues)
         IN  <<[numero |-> IF IsDigit(cell_data[1]) THEN cell_data[1]
                           ELSE NatDigits(index + 1),
                \* [:500] keeps these short texts whole
                descricao |-> IF TextLen(LowerAll(cell_data[2])) > 5 THEN cell_data[2]
                              ELSE ItemName(index),
                quantidade |-> FirstInt(SubSeq(cell_data, 3, Len(cell_data)), IsDigit),
                valor_unitario |-> values.valor_unitario,
                valor_total |-> values.valor_total]>>

\* how many symbols at the head of t are in S
RECURSIVE LeadingRun(_, _)
LeadingRun(t, S) ==
    IF t # <<>> /\ Head(t) \in S THEN 1 + LeadingRun(Tail(t), S) ELSE 0

\* re.split of the row text; cur is the part being read.
\* items-only: r'\t+|\s{3,}' cuts at a run of tabs or of three or more blanks.
\* final: r'\\t+|\\s{3,}' cuts at a backslash followed by letters t, or by
\* three or more letters s.
RECURSIVE ReSplit(_, _, _)
ReSplit(v, t, cur) ==
    IF t = <<>> THEN <<cur>>
    ELSE LET tabs == LeadingRun(t, {"\t"})
             blanks == LeadingRun(t, {" ", "\t"})
             ts == LeadingRun(Tail(t), {"t"})
             ss == LeadingRun(Tail(t), {"s"})
             cut == IF v = "final"
                    THEN (IF Head(t) # "\\" THEN 0
                          ELSE IF ts >= 1 THEN 1 + ts
                          ELSE IF ss >= 3 THEN 1 + ss ELSE 0)
                    ELSE (IF tabs >= 1 THEN tabs
                          ELSE IF blanks >= 3 THEN blanks ELSE 0)
         IN  IF cut > 0
             THEN <<cur>> \o ReSplit(v, SubSeq(t, cut + 1, Len(t)), <<>>)
             ELSE ReSplit(v, Tail(t), Append(cur, Head(t)))

\* parts = [p.strip() for p in parts if p.strip()]
StrippedParts(parts) ==
    LET stripped == [k \in 1..Len(parts) |-> Strip(parts[k])]
    IN  SelectSeq(stripped, LAMBDA q : q # <<>>)

\* re.match(r'^[\d\s,.$R]+$', part); in the final scraper the class holds
\* the characters \ d s , . $ R
LooksNumeric(v, part) ==
    /\ part # <<>>
    /\ \A k \in 1..Len(part) :
          part[k] \in (IF v = "final" THEN {"\\", "d", "s", ",", ".", "R$"}
                       ELSE Digits \cup {" ", "\t", ",", ".", "R$"})

\* re.match(r'^\d+$', part.strip()); in the final scraper the pattern is a
\* backslash followed by letters d
MatchesDigits(v, part) ==
    IF v = "final"
    THEN Len(part) >= 2 /\ part[1] = "\\" /\ \A k \in 2..Len(part) : part[k] = "d"
    ELSE IsDigit(Strip(part))

\* "for part in parts[1:]: if len(part) > len(descricao) and not re.match(...)"
RECURSIVE LongestText(_, _, _)
LongestText(v, parts, descricao) ==
    IF parts = <<>> THEN descricao
    ELSE LET part == Head(parts)
             next == IF TextLen(LowerAll(part)) > TextLen(LowerAll(descricao))
                        /\ ~LooksNumeric(v, part)
                     THEN part ELSE descricao
         IN  LongestText(v, Tail(parts), next)

\* "for part in parts: if 'R$' in part: ... valores.append(float(valor_str))"
RECURSIVE Valores(_, _)
Valores(v, parts) ==
    IF parts = <<>> THEN <<>>
    ELSE LET part == Head(parts)
             number == IF v = "final" THEN ParseFinal(part) ELSE ParseItemsOnly(part)
         IN  (IF Has(part, "R$") /\ number # NoneValue THEN <<number>> ELSE <<>>)
                \o Valores(v, Tail(parts))

\* parse_item_row_corrected / parse_item_row: <<>> is None
parse_item_row(v, line, index) ==
    LET parts == StrippedParts(ReSplit(v, Strip(line), <<>>))
    IN  IF Len(parts) < 3 THEN <<>>
        ELSE LET numero == IF IsDigit(parts[1]) THEN parts[1] ELSE NatDigits(index + 1)
                 descricao == LongestText(v, Tail(parts), <<>>)
                 valores == Valores(v, parts)
             IN  <<[numero |-> numero,
                    descricao |-> IF descricao # <<>> THEN descricao ELSE ItemName(index),
                    quantidade |->
                        FirstInt(parts, LAMBDA q : MatchesDigits(v, q) /\ q # numero),
                    valor_unitario |-> IF Len(valores) > 0 THEN valores[1] ELSE NoneValue,
                    valor_total |-> IF Len(valores) > 1 THEN valores[2]
                                    ELSE IF Len(valores) > 0 THEN valores[1]
                                    ELSE NoneValue]>>

\* the line of the visible text that shows the cells of the row
LineOf(cell_data, sep) == Strip(Join(cell_data, sep))

ParseInit ==
    /\ p_pc = "row"
    /\ p_variant \in Variants
    /\ p_cells \in FieldRows
    /\ p_sep \in Separators
    /\ structural = <<>>
    /\ textual = <<>>
    /\ ReconIdle /\ WalkIdle /\ ItemsIdle /\ CurrencyIdle /\ SentinelIdle /\ DateIdle /\ RowsIdle /\ ConcIdle /\ SessionIdle /\ TabsIdle /\ FilesIdle /\ PagesIdle /\ DownloadIdle

\* the same row is read by the row loop and by the text fallback
ParseRow ==
    /\ p_pc = "row"
    /\ structural' = extract_angular_row_data(p_variant, p_cells, 0)
    /\ textual' = parse_item_row(p_variant, LineOf(p_cells, p_sep), 0)
    /\ p_pc' = "parsed"
    /\ UNCHANGED <<p_variant, p_cells, p_sep>>
    /\ UNCHANGED notParse

ParseNext == ParseRow

SpecParse == ParseInit /\ [][ParseNext]_vars

-----------------------------------------------------------------------------
(* The Tab Activator: ensure_items_tab_active and ensure_files_tab_active *)

MaxCalls == 2            \* activations in a row on one detail page
NumTabSelectors == 5     \* items_tab_selectors / files_tab_selectors

Tabs == {"Itens", "Arquivos", "Histórico"}
Activators == {"final_items", "final_files", "items_only_items"}

\* the tab an activator looks for
Target(a) == IF a = "final_files" THEN "Arquivos" ELSE "Itens"

\* Whether the code clicks the tab it found. marker is "read" when the class
\* attribute was read (it holds is-active exactly when the tab is active),
\* "fails" when reading it raised, "no_element" when element_handle() gave
\* nothing.
\*   ensure_files_tab_active clicks without looking at the marker;
\*   the final ensure_items_tab_active clicks in its bare except;
\*   the items-only one has no inner try: a failed read leaves the selector.
ClicksTab(a, marker, is_active) ==
    IF a = "final_files" THEN TRUE
    ELSE IF marker = "read" THEN ~is_active
    ELSE IF marker = "fails" THEN a = "final_items"
    ELSE FALSE

TabsInit ==
    /\ t_pc = "call"
    /\ activator \in Activators
    /\ active_tab \in Tabs
    /\ t_sel = 1
    /\ clicks = 0
    /\ t_calls = 0
    /\ was_active = FALSE
    /\ t_ret = FALSE
    /\ ReconIdle /\ WalkIdle /\ ItemsIdle /\ CurrencyIdle /\ SentinelIdle /\ DateIdle /\ RowsIdle /\ ConcIdle /\ SessionIdle /\ ParseIdle /\ FilesIdle /\ PagesIdle /\ DownloadIdle

\* the call begins: the selector list is walked from its first entry
EnsureTab_Call ==
    /\ t_pc = "call" /\ t_calls < MaxCalls
    /\ \E a \in Activators : activator' = a /\ was_active' = (active_tab = Target(a))
    /\ t_calls' = t_calls + 1
    /\ t_sel' = 1
    /\ clicks' = 0
    /\ t_pc' = "selector"
    /\ UNCHANGED <<active_tab, t_ret>>
    /\ UNCHANGED notTabs

\* one round of "for selector in ..._tab_selectors"
EnsureTab_Selector ==
    /\ t_pc = "selector" /\ t_sel <= NumTabSelectors
    /\ \E found \in {"raises", "absent", "found"} :
       \E marker \in (IF found = "found" /\ activator # "final_files"
                      THEN {"read", "fails", "no_element"} ELSE {"read"}),
          click_raises \in (IF found = "found" THEN BOOLEAN ELSE {FALSE}) :
          LET is_active == active_tab = Target(activator)
              click == ClicksTab(activator, marker, is_active)
              \* the except clause of the loop: continue
              skipped == \/ found # "found"
                         \/ activator = "items_only_items" /\ marker = "fails"
                         \/ click /\ click_raises
          IN  IF skipped
              THEN /\ t_sel' = t_sel + 1
                   /\ UNCHANGED <<t_pc, active_tab, clicks, t_ret>>
              ELSE /\ active_tab' = IF click THEN Target(activator) ELSE active_tab
                   /\ clicks' = IF click THEN clicks + 1 ELSE clicks
                   /\ t_ret' = TRUE
                   /\ t_pc' = "returned"
                   /\ UNCHANGED t_sel
    /\ UNCHANGED <<activator, t_calls, was_active>>
    /\ UNCHANGED notTabs

\* no selector gave the tab: return False
EnsureTab_NotFound ==
    /\ t_pc = "selector" /\ t_sel > NumTabSelectors
    /\ t_ret' = FALSE
    /\ t_pc' = "returned"
    /\ UNCHANGED <<activator, active_tab, t_sel, clicks, t_calls, was_active>>
    /\ UNCHANGED notTabs

\* the caller goes on and may activate a tab again
EnsureTab_Again ==
    /\ t_pc = "returned" /\ t_calls < MaxCalls
    /\ t_pc' = "call"
    /\ UNCHANGED <<activator, active_tab, t_sel, clicks, t_calls, was_active, t_ret>>
    /\ UNCHANGED notTabs

TabsNext ==
    \/ EnsureTab_Call
    \/ EnsureTab_Selector
    \/ EnsureTab_NotFound
    \/ EnsureTab_Again

SpecTabs == TabsInit /\ [][TabsNext]_vars

-----------------------------------------------------------------------------
(* The File Collector: find_and_download_files of the items-only scraper,
   download_files_from_tab and list_files_from_tab of the final scraper *)

MaxLinks == 6            \* elements one selector can match

FileCap == 5             \* download_links[:5], links[:5], files[:5]
SelectorsItemsOnly == 12 \* download_selectors of find_and_download_files
SelectorsFinal == 7      \* download_selectors of download_files_from_tab

\* "items_only": find_and_download_files; "final_download": the final scraper
\* with self.download_files set; "final_list": the final scraper without it
FileModes == {"items_only", "final_download", "final_list"}

\* self.download_files; the items-only scraper always downloads
DownloadEnabled(mode) == mode # "final_list"

NumDownloadSelectors(mode) ==
    IF mode = "items_only" THEN SelectorsItemsOnly ELSE SelectorsFinal

\* the dict download_file returns after handle_download saved the file: it has
\* 'filepath' and 'size' and no 'download_status'
DownloadedFile(sel, i) ==
    [selector |-> sel, link |-> i, download_status |-> Null, local_path |-> TRUE,
     size |-> "saved", triggered |-> TRUE]

\* file_info of download_files_from_tab: nothing is downloaded
SimulatedFile(sel, i) ==
    [selector |-> sel, link |-> i, download_status |-> "simulated", local_path |-> FALSE,
     size |-> "zero", triggered |-> FALSE]

\* file_info of list_files_from_tab, one for each line that names a file
ListedFile(i) ==
    [selector |-> 0, link |-> i, download_status |-> "listed_only", local_path |-> FALSE,
     size |-> "zero", triggered |-> FALSE]

FilesInit ==
    /\ f_pc = "selector"
    /\ f_mode \in FileModes
    /\ f_sel = 1
    /\ links = 0
    /\ link_i = 0
    /\ files = <<>>
    /\ first_match = 0
    /\ ReconIdle /\ WalkIdle /\ ItemsIdle /\ CurrencyIdle /\ SentinelIdle /\ DateIdle /\ RowsIdle /\ ConcIdle /\ SessionIdle /\ ParseIdle /\ TabsIdle /\ PagesIdle /\ DownloadIdle

\* "for selector in download_selectors: links = await page.locator(selector).all()"
\* With no element the inner loop has nothing to do and the next selector is
\* tried; so it is when locator(...).all() raises.
FindFiles_Selector ==
    /\ f_pc = "selector" /\ f_mode # "final_list"
    /\ f_sel <= NumDownloadSelectors(f_mode)
    /\ \E raises \in BOOLEAN :
       \E n \in (IF raises THEN {0} ELSE 0..MaxLinks) :
          IF n = 0
          THEN /\ f_sel' = f_sel + 1
               /\ UNCHANGED <<f_pc, links, link_i, first_match>>
          ELSE /\ links' = n
               /\ link_i' = 0
               /\ first_match' = IF first_match = 0 THEN f_sel ELSE first_match
               /\ f_pc' = "links"
               /\ UNCHANGED f_sel
    /\ UNCHANGED <<f_mode, files>>
    /\ UNCHANGED notFiles

\* one round of "for i, link in enumerate(links[:5])", and after the last
\* round "if downloaded_files: break" / "if files: break"
FindFiles_Link ==
    /\ f_pc = "links" /\ link_i < Min(links, FileCap)
    /\ \E outcome \in (IF f_mode = "items_only"
                       THEN {"raises", "no_href", "downloaded", "no_download"}
                       ELSE {"raises", "no_href", "listed"}) :
          LET appended ==
                 IF outcome = "downloaded" THEN Append(files, DownloadedFile(f_sel, link_i))
                 ELSE IF outcome = "listed" THEN Append(files, SimulatedFile(f_sel, link_i))
                 ELSE files
              last == link_i + 1 = Min(links, FileCap)
          IN  /\ files' = appended
              /\ IF ~last
                 THEN /\ link_i' = link_i + 1
                      /\ UNCHANGED <<f_pc, f_sel, links>>
                 ELSE /\ link_i' = 0
                      /\ links' = 0
                      /\ IF appended # <<>>
                         THEN f_pc' = "done" /\ UNCHANGED f_sel
                         ELSE f_pc' = "selector" /\ f_sel' = f_sel + 1
    /\ UNCHANGED <<f_mode, first_match>>
    /\ UNCHANGED notFiles

\* the selector list is used up: return what was collected
FindFiles_Return ==
    /\ f_pc = "selector" /\ f_mode # "final_list"
    /\ f_sel > NumDownloadSelectors(f_mode)
    /\ f_pc' = "done"
    /\ UNCHANGED <<f_mode, f_sel, links, link_i, files, first_match>>
    /\ UNCHANGED notFiles

\* list_files_from_tab: one descriptor for each line of the page text that
\* names a file, "return files[:5]"
ListFiles ==
    /\ f_pc = "selector" /\ f_mode = "final_list"
    /\ \E n \in 0..MaxLinks :
          files' = [k \in 1..Min(n, FileCap) |-> ListedFile(k - 1)]
    /\ f_pc' = "done"
    /\ UNCHANGED <<f_mode, f_sel, links, link_i, first_match>>
    /\ UNCHANGED notFiles

FilesNext ==
    \/ FindFiles_Selector
    \/ FindFiles_Link
    \/ FindFiles_Return
    \/ ListFiles

SpecFiles == FilesInit /\ [][FilesNext]_vars

-----------------------------------------------------------------------------
(* The page loop of the Listing Walker: scrape_estado and
   scrape_multiplos_estados of the final scraper with the detail visits left
   out. A card gives a record or nothing; every wait returns. *)

MaxPageCards == 2    \* cards one listing page shows
MaxRegions == 2      \* regions of one run

\* "while len(editais) < (limit or 30) and current_page <= max_pages" without
\* the test of the page number
WhileTest_NoPageCap(n, lim, p) == n < lim

\* while len(editais) < (limit or 30) and current_page <= max_pages
WhileTest(n, lim, p) == n < lim /\ p <= max_pages

\* a region loop that stays on the region it has finished
NextRegion_Same(i) == i

\* "for i, uf in enumerate(estados, 1)": the next region
NextRegion(i) == i + 1

PagesInit ==
    /\ g_pc = "region"
    /\ g_estados \in 0..MaxRegions
    /\ g_limit \in Limits
    /\ g_ri = 1
    /\ g_editais = 0
    /\ g_page = 1
    /\ g_todo = 0
    /\ g_i = 0
    /\ g_clicks = 0
    /\ g_processed = 0
    /\ ReconIdle /\ WalkIdle /\ ItemsIdle /\ CurrencyIdle /\ SentinelIdle /\ DateIdle /\ RowsIdle /\ ConcIdle /\ SessionIdle /\ ParseIdle /\ TabsIdle /\ FilesIdle /\ DownloadIdle

\* scrape_estado begins: editais = [], current_page = 1, navigate_and_filter;
\* when that fails it returns [] and the region loop goes on
Pages_Navigate ==
    /\ g_pc = "region" /\ g_ri <= g_estados
    /\ g_editais' = 0 /\ g_page' = 1 /\ g_todo' = 0 /\ g_i' = 0
    /\ g_clicks' = 0 /\ g_processed' = 0
    /\ \E ok \in BOOLEAN :
          IF ok THEN g_pc' = "while" /\ g_ri' = g_ri
                ELSE g_pc' = "region" /\ g_ri' = NextRegion(g_ri)
    /\ UNCHANGED <<g_estados, g_limit>>
    /\ UNCHANGED notPages

\* the while test, get_editais_count and editais_to_process
Pages_While ==
    /\ g_pc = "while"
    /\ IF WhileTest(g_editais, LimitOr30(g_limit), g_page)
       THEN \E total_editais_page \in 0..MaxPageCards :
               IF total_editais_page = 0
               THEN g_pc' = "region_end" /\ UNCHANGED <<g_todo, g_i, g_processed>>
               ELSE /\ g_todo' = Min(total_editais_page, LimitOr30(g_limit) - g_editais)
                    /\ g_i' = 0
                    /\ g_processed' = g_processed + 1
                    /\ g_pc' = "cards"
       ELSE g_pc' = "region_end" /\ UNCHANGED <<g_todo, g_i, g_processed>>
    /\ UNCHANGED <<g_estados, g_limit, g_ri, g_editais, g_page, g_clicks>>
    /\ UNCHANGED notPages

\* one round of "for i in range(editais_to_process)": process_edital gives a
\* record or None, then the limit test
Pages_Card ==
    /\ g_pc = "cards" /\ g_i < g_todo
    /\ \E got \in BOOLEAN :
          LET n == IF got THEN g_editais + 1 ELSE g_editais
          IN  /\ g_editais' = n
              /\ g_i' = g_i + 1
              /\ g_pc' = IF (LimitTruthy(g_limit) /\ n >= g_limit.n) \/ g_i + 1 = g_todo
                         THEN "next" ELSE "cards"
    /\ UNCHANGED <<g_estados, g_limit, g_ri, g_page, g_todo, g_clicks, g_processed>>
    /\ UNCHANGED notPages

\* "if len(editais) < (limit or 30) and not await self.click_next_page(): break"
\* and "current_page += 1"
Pages_NextPage ==
    /\ g_pc = "next"
    /\ IF g_editais < LimitOr30(g_limit)
       THEN \E clicked \in BOOLEAN :
               IF clicked
               THEN /\ g_clicks' = g_clicks + 1
                    /\ g_page' = NextPageNumber(g_page)
                    /\ g_pc' = "while"
               ELSE g_pc' = "region_end" /\ UNCHANGED <<g_clicks, g_page>>
       ELSE /\ g_page' = NextPageNumber(g_page)
            /\ g_pc' = "while"
            /\ UNCHANGED g_clicks
    /\ UNCHANGED <<g_estados, g_limit, g_ri, g_editais, g_todo, g_i, g_processed>>
    /\ UNCHANGED notPages

\* scrape_estado returns editais and the region loop takes the next region
Pages_Return ==
    /\ g_pc = "region_end"
    /\ g_ri' = NextRegion(g_ri)
    /\ g_pc' = "region"
    /\ UNCHANGED <<g_estados, g_limit, g_editais, g_page, g_todo, g_i, g_clicks,
                   g_processed>>
    /\ UNCHANGED notPages

\* an exception leaves scrape_estado; "except Exception ...: continue"
Pages_Raises ==
    /\ g_pc = "cards"
    /\ g_ri' = NextRegion(g_ri)
    /\ g_pc' = "region"
    /\ UNCHANGED <<g_estados, g_limit, g_editais, g_page, g_todo, g_i, g_clicks,
                   g_processed>>
    /\ UNCHANGED notPages

\* scrape_multiplos_estados returns all_editais
Pages_Done ==
    /\ g_pc = "region" /\ g_ri > g_estados
    /\ g_pc' = "done"
    /\ UNCHANGED <<g_estados, g_limit, g_ri, g_editais, g_page, g_todo, g_i, g_clicks,
                   g_processed>>
    /\ UNCHANGED notPages

PagesNext ==
    \/ Pages_Navigate
    \/ Pages_While
    \/ Pages_Card
    \/ Pages_NextPage
    \/ Pages_Return
    \/ Pages_Raises
    \/ Pages_Done

SpecPages == PagesInit /\ [][PagesNext]_vars

\* The scraper is one coroutine and every wait returns, so a step that can be
\* taken is taken.
SpecPagesFair == PagesInit /\ [][PagesNext]_vars /\ WF_vars(PagesNext)

-----------------------------------------------------------------------------
(* One download attempt: download_file of the items-only scraper. The page
   emits download events; for each event that finds handle_download
   registered the event emitter starts handle_download as a task of its own,
   which runs interleaved with download_file at the awaits. *)

MaxEvents == 3       \* download events during one attempt

\* the tasks: "saving" after "download_info = download", before save_as has
\* returned; "done" afterwards
DownloadInit ==
    /\ m_pc = "register"
    /\ cb = <<>>
    /\ listener = FALSE
    /\ download_info = 0
    /\ events = 0
    /\ saves = <<>>
    /\ descriptors = 0
    /\ ReconIdle /\ WalkIdle /\ ItemsIdle /\ CurrencyIdle /\ SentinelIdle /\ DateIdle /\ RowsIdle /\ ConcIdle /\ SessionIdle /\ ParseIdle /\ TabsIdle /\ FilesIdle /\ PagesIdle

\* self.page.on("download", handle_download)
Download_Register ==
    /\ m_pc = "register"
    /\ listener' = TRUE
    /\ m_pc' = "click"
    /\ UNCHANGED <<cb, download_info, events, saves, descriptors>>
    /\ UNCHANGED notDownload

\* await link_element.click(); when it raises the handler removes the
\* listener and returns None
Download_Click ==
    /\ m_pc = "click"
    /\ \E raises \in BOOLEAN :
          IF raises THEN listener' = FALSE /\ m_pc' = "returned"
          ELSE listener' = listener /\ m_pc' = "wait"
    /\ UNCHANGED <<cb, download_info, events, saves, descriptors>>
    /\ UNCHANGED notDownload

\* The page emits a download event after the click. With the listener
\* registered a handle_download task starts for this download and runs up to
\* its first await: download_info = download. Without it the event has no
\* effect.
Download_Event ==
    /\ m_pc \in {"wait", "second_save", "returned"} /\ events < MaxEvents
    /\ events' = events + 1
    /\ IF listener
       THEN /\ cb' = Append(cb, "saving")
            /\ saves' = Append(saves, 0)
            /\ download_info' = Len(cb) + 1
       ELSE UNCHANGED <<cb, saves, download_info>>
    /\ UNCHANGED <<m_pc, listener, descriptors>>
    /\ UNCHANGED notDownload

\* a task's "await download.save_as(filepath)" returns or raises; what the
\* task returns goes nowhere
Download_TaskSaves ==
    /\ \E k \in 1..Len(cb) :
          /\ cb[k] = "saving"
          /\ cb' = [cb EXCEPT ![k] = "done"]
          /\ \E ok \in BOOLEAN :
                saves' = IF ok THEN [saves EXCEPT ![k] = @ + 1] ELSE saves
    /\ UNCHANGED <<m_pc, listener, download_info, events, descriptors>>
    /\ UNCHANGED notDownload

\* wait_for_timeout(5000) returns; remove_listener; "if download_info:"
Download_WaitEnds ==
    /\ m_pc = "wait"
    /\ listener' = FALSE
    /\ m_pc' = IF download_info # 0 THEN "second_save" ELSE "returned"
    /\ UNCHANGED <<cb, download_info, events, saves, descriptors>>
    /\ UNCHANGED notDownload

\* "return await handle_download(download_info)": download_file runs the
\* handler itself, which saves the file and builds the descriptor; when
\* save_as raises, download_file returns None
Download_SecondSave ==
    /\ m_pc = "second_save"
    /\ \E ok \in BOOLEAN :
          /\ saves' = IF ok THEN [saves EXCEPT ![download_info] = @ + 1] ELSE saves
          /\ descriptors' = IF ok THEN descriptors + 1 ELSE descriptors
    /\ m_pc' = "returned"
    /\ UNCHANGED <<cb, listener, download_info, events>>
    /\ UNCHANGED notDownload

DownloadNext ==
    \/ Download_Register
    \/ Download_Click
    \/ Download_Event
    \/ Download_TaskSaves
    \/ Download_WaitEnds
    \/ Download_SecondSave

SpecDownload == DownloadInit /\ [][DownloadNext]_vars

-----------------------------------------------------------------------------
(* Properties of the reconcilers *)

Fits(rec) == TitleLen(rec.title) <= TitleMax
RowsWithId(rows, id) == {k \in 1..Len(rows) : rows[k].pncp_id = id}
LastWithId(recs, id) ==
    CHOOSE k \in RowsWithId(recs, id) : \A j \in RowsWithId(recs, id) : j <= k
Logged(stmt, ok) == {k \in 1..Len(rlog) : rlog[k].stmt = stmt /\ rlog[k].ok = ok}
Raised == {k \in 1..Len(rlog) : ~rlog[k].ok}
IsPrefix(s, t) == Len(s) <= Len(t) /\ SubSeq(t, 1, Len(s)) = s

\* the write of rec, executed alone on the store the execution started with
AcceptedAlone(ep, rec) ==
    IF Statement(ep, rec, SelectIds(store0)) = "update"
    THEN DbUpdate(store0, FALSE, rec).ok
    ELSE DbInsert(store0, FALSE, rec).ok

\* C1 (as claimed): when inserir_no_banco has reconciled a batch that holds two
\* records with the same non-empty identifier and different titles (every record
\* of the batch being one the store accepts), the store holds exactly one row with
\* that identifier and the row carries the values of the last such record.
C1_Deduplicated ==
    (r_pc = "done" /\ run = 1 /\ entry = "inserir_no_banco"
        /\ \A k \in 1..Len(batch) : Fits(batch[k]))
    => \A i, j \in 1..Len(batch) :
          (i < j /\ Truthy(batch[i].pncp_id) /\ batch[i].pncp_id = batch[j].pncp_id
                 /\ batch[i].title # batch[j].title)
          => /\ Cardinality(RowsWithId(store, batch[i].pncp_id)) = 1
             /\ \A k \in RowsWithId(store, batch[i].pncp_id) :
                   store[k] = batch[LastWithId(batch, batch[i].pncp_id)]

C3_EmptyIdAlwaysInserted ==
    (r_pc = "done" /\ run = 1
        /\ \A k \in 1..Len(batch) : batch[k].pncp_id = "" /\ Fits(batch[k]))
    => /\ Len(store) = Len(store0) + Len(batch)
       /\ IsPrefix(store0, store)

\* C4 (as claimed): when inserir_no_banco ends, every record that the store accepts
\* on its own and that shares its identifier with no other record of the batch is
\* in the store, whatever happened to the other records of the batch.
C4_FailureConfined ==
    (r_pc = "done" /\ run = 1 /\ entry = "inserir_no_banco")
    => \A k \in 1..Len(batch) :
          (/\ AcceptedAlone(entry, batch[k])
           /\ \A j \in 1..Len(batch) : j # k => batch[j].pncp_id # batch[k].pncp_id
           /\ \E j \in 1..Len(batch) : ~Fits(batch[j]))
          => \E r \in 1..Len(store) : store[r] = batch[k]

-----------------------------------------------------------------------------
(* Properties of the pipeline run *)

Enriched(recs) == {k \in 1..Len(recs) : recs[k].has_details}

C9_RegionCode ==
    /\ \A k \in 1..Len(editais) : editais[k].state_code = editais[k].h_uf
    /\ \A k \in 1..Len(all_editais) : all_editais[k].state_code = all_editais[k].h_uf

-----------------------------------------------------------------------------
(* Properties of the Item Extractor *)

\* C7: whatever the number of valid rows and whichever path (structural or text
\* fallback) produced it, in both scraper variants, the list the Item Extractor
\* returns for one detail page holds at most 10 items, and the list it is
\* building never holds more.
C7_AtMostTenItems ==
    /\ Len(items) <= RowCap
    /\ i_pc = "done" => Len(result) <= RowCap

\* C7 witness: the extractor has returned from the structural path on a panel that
\* offered more than 10 valid rows, every processed row gave an item, and the
\* result holds exactly 10 items.
C7_Witness ==
    /\ i_pc = "done" /\ path = "structural"
    /\ offered > RowCap
    /\ Len(result) = RowCap

-----------------------------------------------------------------------------
(* Properties of currency parsing *)

\* the rule of C10 applied to the text of a token without its currency marker and
\* whitespace
C10_Rule(t) ==
    LET body == SelectSeq(t, LAMBDA c : c # "R$" /\ c # " ")
        commas == {k \in 1..Len(body) : body[k] = ","}
    IN  IF commas # {}
        THEN LET last == CHOOSE k \in commas : \A j \in commas : j <= k
                 whole == SelectSeq(SubSeq(body, 1, last - 1), LAMBDA c : c # ".")
                 fraction == SubSeq(body, last + 1, Len(body))
             IN  IF AllIn(whole, Digits) /\ AllIn(fraction, Digits)
                    /\ whole \o fraction # <<>>
                 THEN Number(whole, fraction) ELSE NoneValue
        ELSE LET whole == SelectSeq(body, LAMBDA c : c # ".")
             IN  IF whole # <<>> /\ AllIn(whole, Digits)
                 THEN Number(whole, <<>>) ELSE NoneValue

\* a token made of the currency marker, optional whitespace and a run of digits,
\* dots and commas
MoneyText(t) ==
    /\ Len(t) >= 2 /\ t[1] = "R$"
    /\ LET body == Strip(Tail(t))
       IN  body # <<>> /\ AllIn(body, Digits \cup {".", ","})

\* C10 (as claimed): for every token made of the currency marker and a run of
\* digits, dots and commas, each of the three parsers gives what the one rule
\* gives: with a comma, the part before the last comma without its dots as integer
\* part and the rest as fraction; without a comma, the digits with the dots
\* removed; None when that is not a number.
C10_OneRule ==
    \A p \in DOMAIN parsed :
        (parsed[p].done /\ MoneyText(token)) => parsed[p].value = C10_Rule(token)

-----------------------------------------------------------------------------
(* Properties of the value cells *)

\* C11 (as claimed): when the first value cell of a row holds the confidential
\* marker in any letter case, the extracted item carries the confidential
\* sentinel as its valor_unitario, and the valor_unitario that is stored for it is
\* neither null nor zero.
C11_SentinelKept ==
    (Len(cells) >= 1 /\ IsSigilosoCell_AnyCase(cells[1]))
    => /\ s_pc \in {"item", "stored"} => item.valor_unitario = SigilosoValue
       /\ s_pc = "stored" => /\ stored.valor_unitario # NoneValue
                             /\ stored.valor_unitario # Number(<<"0">>, <<>>)

-----------------------------------------------------------------------------
(* Properties of the publication date *)

\* the date the card names, where its text after the label is a real date
CardNamesDate(card) == card.label /\ card.text.fmt = "br" /\ card.text.day \in Days
TextNamesDate(text) == text.fmt = "iso" /\ text.day \in Days

\* C12: the publication date of a produced and of a stored record is the
\* date parsed from the source, or null; where the source names no date it
\* is null, never the current day
C12_DateOrNull ==
    /\ (d_pc \in {"produced", "stored"} /\ ~CardNamesDate(card_date))
          => pub = NoText
    /\ (d_pc = "stored" /\ ~TextNamesDate(given))
          => stored_date = NullDate

-----------------------------------------------------------------------------
(* Properties of the Row Validator *)

\* the noise classes: a date followed by a time of day, a row that ends in a
\* filename suffix, an audit-trail verb with its object, an empty row
NoiseRow(row) ==
    LET text == LowerAll(Strip(row))
    IN  \/ Then(text, "01/02/2024", "10:30:00")
        \/ EndsWith(text, ".pdf") \/ EndsWith(text, ".doc") \/ EndsWith(text, ".rar")
        \/ Then(text, "inclusão", "contratação") \/ Then(text, "inclusão", "documento")
        \/ \E i, j \in 1..Len(text) :
              i < j /\ text[i] \in {"alteração", "publicação"} /\ text[j] # " "
        \/ text = <<>>

\* C13: the Row Validator of each variant rejects every row of a noise class
C13_NoiseRejected ==
    (v_pc = "validated" /\ NoiseRow(row_text)) => ~valid

-----------------------------------------------------------------------------
(* Properties of the Listing Walker *)

\* C14: for every limit L >= 0 given to scrape_estado, the list it collects
\* for the region never holds more than L records, over all pages
C14_WithinLimit ==
    (variant = "final" /\ limit.given /\ w_pc \in {"page", "cards", "next", "region_end"})
        => Len(editais) <= limit.n

\* positions <<page, index>> in listing order
Before(a, b) == a[1] < b[1] \/ (a[1] = b[1] /\ a[2] < b[2])
Position(rec) == <<rec.h_page, rec.index>>

\* C15: within a region cards are processed in increasing index order, pages
\* one after the other from the first without leaving one out, a page only
\* after the page before it has ended, and the region's list is in listing order
C15_ListingOrder ==
    /\ [][(trace'.visited # trace.visited /\ trace'.visited # <<>>)
            => IF trace.visited = <<>> THEN trace'.visited = <<1, 0>>
               ELSE \/ trace'.visited = <<trace.visited[1], trace.visited[2] + 1>>
                    \/ trace'.visited = <<trace.visited[1] + 1, 0>>]_vars
    /\ [](\A i, j \in 1..Len(editais) :
              i < j => Before(Position(editais[i]), Position(editais[j])))

\* C15 witness: a region whose second page had a card processed after the card
\* of the first, with a record of each page in its list
C15_Witness ==
    /\ variant = "final"
    /\ trace.visited = <<2, 0>>
    /\ \E i, j \in 1..Len(editais) : editais[i].h_page = 1 /\ editais[j].h_page = 2

Indices(list) == [k \in 1..Len(list) |-> k]

\* C16: a region that fails, at navigation or by an exception, does not end the
\* run: when scrape_multiplos_estados returns, scrape_estado was called for
\* every region of the list in list order, and what earlier regions had put
\* in the batch is still in it (the batch only grows)
C16_FailureDoesNotStop ==
    /\ [](variant = "final" /\ w_pc = "done" => trace.started = Indices(estados))
    /\ [][IsPrefix(all_editais, all_editais')]_vars

\* C16 witness: the first region failed, the second was processed and its
\* records are in the returned batch
C16_Witness ==
    /\ variant = "final" /\ w_pc = "done" /\ Len(estados) = 2
    /\ 1 \in trace.failed /\ 2 \notin trace.failed
    /\ all_editais # <<>>

\* C17: when cancellation is requested while region i is processed, region i
\* is finished and no later region is started
C17_CancelAtBoundary ==
    (trace.cancel_at # 0 /\ w_pc \in {"done", "interrupted"})
        => /\ trace.cancel_at \in trace.finished
           /\ \A k \in 1..Len(trace.started) : trace.started[k] <= trace.cancel_at

-----------------------------------------------------------------------------
(* Properties of concurrent reconciling *)

InBatch(list, id) == \E k \in 1..Len(list) : list[k].pncp_id = id

\* C18: when two executions run on batches that both hold identifier A, the
\* store ends with exactly one row for A, no execution's write is lost (both
\* transactions committed), and the row carries the values of the execution
\* that committed last
C18_Serialized ==
    ((\A p \in Procs : c_pc[p] = "done" /\ InBatch(c_batch[p], "A")))
        => /\ Cardinality(RowsWithId(c_store, "A")) = 1
           /\ \A p \in Procs : \E k \in 1..Len(c_order) : c_order[k] = p
           /\ \A k \in RowsWithId(c_store, "A") :
                 c_store[k].title = c_order[Len(c_order)]

-----------------------------------------------------------------------------
(* Properties of the session *)

\* C19: on every exit path of a run (normal completion, an exception during
\* scraping, a failure in start after the driver was started) no browser is
\* left open and no automation driver is left running when the run returns
C19_AllReleased ==
    x_pc = "returned" => (live_drivers = 0 /\ live_browsers = 0)

-----------------------------------------------------------------------------
(* Properties of the fallback of the Item Extractor *)

\* C20: whenever the structural extraction ends with no item, also when rows
\* were found and none of them gave an item, the text fallback is run: the
\* extractor returns an empty list only after the text strategy ran
C20_FallbackOnEmpty ==
    (i_pc = "done" /\ path # "none" /\ result = <<>>) => path = "text"

\* ---------------------------------------------------------------------------
\* Properties of the active page
\* ---------------------------------------------------------------------------

\* C21: a process_edital call made on the listing page leaves the listing page
\* active when it returns, whether it returns a record or a failure
C21_BackOnListing ==
    [][(stats'.calls = stats.calls + 1 /\ page = "listing") => page' = "listing"]_vars

\* ---------------------------------------------------------------------------
\* Properties of the value cells of a row
\* ---------------------------------------------------------------------------

\* the cells of a row that carry the currency mark or are the confidential marker
MarkedCells(cell_data) ==
    SelectSeq(cell_data, LAMBDA data : Has(data, "R$") \/ IsSigilosoCell(data))

\* the value such a cell stands for
MarkedValue(v, data) ==
    IF IsSigilosoCell(data) THEN SigilosoValue
    ELSE IF v = "final" THEN ParseFinal(data) ELSE ParseItemsOnly(data)

\* C22: the structural extraction of a row takes the unit value from the first
\* currency-marked or confidential cell and the total value from the second one;
\* a third or later such cell does not change the total value, and a row with a
\* single such cell has no total value
C22_FirstAndSecond ==
    s_pc = "item" =>
        LET m == MarkedCells(cells)
        IN  /\ Len(m) >= 1 => item.valor_unitario = MarkedValue(s_variant, m[1])
            /\ Len(m) >= 2 => item.valor_total = MarkedValue(s_variant, m[2])
            /\ Len(m) <= 1 => item.valor_total = NoneValue

\* ---------------------------------------------------------------------------
\* Properties of the two row parsers
\* ---------------------------------------------------------------------------

\* the row is accepted by the Row Validator, as cells and as a line of text
RowAccepted ==
    /\ is_valid_items_row(p_variant, Join(p_cells, <<" ">>))
    /\ is_valid_items_row(p_variant, LineOf(p_cells, p_sep))

\* C23: for every accepted row whose fields are separated by tabs or by three
\* blanks, the text-fallback parser gives the same number, description,
\* quantity, unit value and total value as the structural parser gives for
\* the same fields as cells
C23_SameFields ==
    (p_pc = "parsed" /\ RowAccepted) => textual = structural

\* ---------------------------------------------------------------------------
\* Properties of the Tab Activator
\* ---------------------------------------------------------------------------

\* C24: activating a tab that is already the active one performs no click and
\* leaves the page as it was, for the Items activator and for the Files
\* activator, also when reading the tab's active marker fails
C24_NoClickWhenActive ==
    (t_pc = "returned" /\ was_active)
        => (clicks = 0 /\ active_tab = Target(activator))

\* ---------------------------------------------------------------------------
\* Properties of the File Collector
\* ---------------------------------------------------------------------------

\* C25: at most five descriptors are recorded for one tender and all of them
\* come from the first selector, in the order of the list, that matched any
\* element; no selector after that one is consulted, also when every
\* download of its elements fails
C25_FirstSelectorOnly ==
    /\ Len(files) <= FileCap
    /\ first_match # 0 =>
          /\ f_sel = first_match
          /\ \A k \in 1..Len(files) : files[k].selector = first_match

\* C26: a descriptor recorded with download enabled comes from a download
\* that was triggered and has status downloaded, a local path and the size
\* of the saved file; a descriptor recorded with download disabled has
\* status listed_only or simulated and no local path
C26_StatusMatchesMode ==
    \A k \in 1..Len(files) :
        IF DownloadEnabled(f_mode)
        THEN /\ files[k].triggered
             /\ files[k].download_status = "downloaded"
             /\ files[k].local_path
             /\ files[k].size = "saved"
        ELSE /\ files[k].download_status \in {"listed_only", "simulated"}
             /\ ~files[k].local_path

\* ---------------------------------------------------------------------------
\* Properties of the page loop
\* ---------------------------------------------------------------------------

\* C27: in every region the page number the Listing Walker reaches never
\* exceeds 3, cards of at most 3 pages are processed, and after the third
\* page no further next-page click is made
C27_ThreePagesNoClick ==
    /\ g_page <= max_pages
    /\ g_processed <= max_pages
    /\ g_clicks <= max_pages - 1

\* C27, as the code has it: cards of at most 3 pages are processed and cards
\* are only processed while the page number is at most 3; after the third
\* page one more next-page click may be made, so that the page number
\* reaches 4 and the clicks reach 3, and then the region is exhausted
C27_ThreePagesProcessed ==
    /\ g_processed <= max_pages
    /\ g_pc = "cards" => g_page <= max_pages
    /\ g_page <= max_pages + 1
    /\ g_clicks <= max_pages
    /\ g_page = max_pages + 1 => g_pc \in {"while", "region_end", "region", "done"}

\* three pages were processed, a third click followed and the region ended
C27_Witness ==
    g_pc = "region_end" /\ g_processed = max_pages /\ g_clicks = max_pages
        /\ g_page = max_pages + 1

\* C28: every wait returning, the processing of a region always ends, and a
\* run over a finite list of regions eventually returns its batch
C28_Terminates ==
    /\ (g_pc \in {"while", "cards", "next", "region_end"}) ~> (g_pc = "region")
    /\ <>(g_pc = "done")

\* a run over the longest region list has returned after a region went
\* through three pages
C28_Witness ==
    g_pc = "done" /\ g_estados = MaxRegions /\ g_processed = max_pages

\* ---------------------------------------------------------------------------
\* Properties of the extraction method of the items
\* ---------------------------------------------------------------------------

\* C29: all items returned for one detail page carry the same extraction
\* method, the structural one or the text-fallback one, never a mixture; and
\* the text fallback runs only when the structural path contributed no item
C29_OneMethod ==
    /\ [](\A j, k \in 1..Len(result) :
             result[j].extraction_method = result[k].extraction_method)
    /\ []((i_pc = "done" /\ path = "text") =>
             \A k \in 1..Len(result) :
                result[k].extraction_method = TextMethod(i_variant))
    /\ []((i_pc = "done" /\ path = "structural") =>
             \A k \in 1..Len(result) :
                result[k].extraction_method = StructuralMethod(i_variant))
    /\ [][(i_pc = "after" /\ path' = "text") => items = <<>>]_vars

\* rows were found, none of them gave an item, and the text fallback gave two
C29_Witness ==
    i_pc = "done" /\ path = "text" /\ rows_found /\ Len(result) >= 2

\* ---------------------------------------------------------------------------
\* Properties of a download attempt
\* ---------------------------------------------------------------------------

\* C30: in every interleaving of the download-event callback with the
\* coroutine that clicks and waits, the file is saved at most once and the
\* attempt gives at most one descriptor; when no download event arrives the
\* attempt gives no descriptor, saves nothing and leaves no listener
\* registered
C30_SavedOnce ==
    /\ \A k \in 1..Len(saves) : saves[k] <= 1
    /\ descriptors <= 1
    /\ (m_pc = "returned" /\ events = 0) =>
          (descriptors = 0 /\ saves = <<>> /\ ~listener)

====
